---- MODULE Spec2Model ----
(***************************************************************************)
(* Trust boundary of medi-order: the session registry                      *)
(* (db/service/src/session/mod.rs) and the signed-token service            *)
(* (db/service/src/jwt/mod.rs).                                            *)
(*                                                                         *)
(* Session time is counted in minutes, token time in seconds (the unit of  *)
(* the iat/exp/nbf claims).                                                *)
(***************************************************************************)
EXTENDS Integers, Sequences, FiniteSets, TLC

(***************************************************************************)
(* Bounds of the model                                                     *)
(***************************************************************************)
\* number of clock advances explored in the general session specifications
MaxTicks == 2
\* number of clock advances explored in the keep-alive specification
MaxFineTicks == 17
\* number of clock advances explored with suspended validate_session calls
MaxConcTicks == 2
\* number of create_session calls explored (each draws a fresh row id)
MaxCreated == 2

\* number of clock advances explored around the sweep of expired sessions
MaxSweepTicks == 3

\* number of clock advances explored between logins and logouts
MaxLoginTicks == 1

\* subjects, bearer strings, client addresses and user agents drawn by callers
Users == {"u1", "u2"}
Tokens == {"tokA", "tokB"}
IpAddresses == {"10.0.0.7"}
UserAgents == {"None"}
\* concurrent callers of validate_session
Procs == {"p1", "p2"}
\* amounts (minutes) by which the wall clock advances between calls
CoarseSteps == {30, 31, 481}
FineSteps == {29, 30, 31}
\* advances (minutes) that bring the clock to a session's expires_at and past it
SweepSteps == {31, 449}
\* the advance (minutes) that takes a session past its expires_at
LoginSteps == {481}
\* advances (minutes) shorter than the idle timeout, between suspended calls
RaceSteps == {10, 29}
\* bearer strings and clock advances explored with suspended calls
ConcTokens == {"tokA"}
ConcSteps == {31, 481}

(***************************************************************************)
(* Program constants                                                       *)
(***************************************************************************)
\* Duration::hours(8), create_session
SESSION_HOURS == 8
\* Duration::minutes(30), validate_session
IDLE_TIMEOUT_MINUTES == 30

DurationHours(h) == h * 60
DurationMinutes(m) == m

VARIABLES
    clock,      \* Utc::now() of the session service, minutes
    ticks,      \* number of clock advances so far
    sessions,   \* rows of table "sessions"
    nextId,     \* the next row id Id::new() yields
    calls,      \* validate_session calls suspended between their two statements
    result,     \* response of the call that completed in the last step
    drawn,      \* the bearer strings generate_token returned and a row stored, each with its subject
    jclock,     \* Utc::now().timestamp() of the token service, seconds
    jticks,     \* number of advances of jclock so far
    nextJti,    \* the next token id Id::new() yields
    wire,       \* the token string a caller holds, as its dot-separated parts
    issued,     \* the generate_token call the held token comes from
    jresult,    \* response of the token-service call that completed in the last step
    blob,       \* the string a holder of an encrypted blob presents to decrypt
    sealed,     \* the encrypt call the held blob comes from
    dresult,    \* response of the encrypt or decrypt call of the last step
    disk,       \* the files: the config file and the plain-text copy
    writers,    \* save calls suspended inside fs::write
    cresult,    \* response of the config-storage call of the last step
    saved       \* the last save that succeeded, until a later call replaces the file

sessionVars == <<clock, ticks, sessions, nextId, calls, result, drawn>>
jwtVars == <<jclock, jticks, nextJti, wire, issued, jresult>>
cryptoVars == <<blob, sealed, dresult>>
vaultVars == <<disk, writers, cresult, saved>>
vars == <<sessionVars, jwtVars, cryptoVars, vaultVars>>

(***************************************************************************)
(* Responses                                                               *)
(***************************************************************************)
\* SessionResponse::from(Model): ip_address and user_agent are not returned
SessionResponse(row) ==
    [id |-> row.id, user_id |-> row.user_id, token |-> row.token,
     expires_at |-> row.expires_at, last_activity_at |-> row.last_activity_at,
     created_at |-> row.created_at]

NoResult == [op |-> "none", arg |-> "", err |-> "none", msg |-> "", rows |-> {}, count |-> 0]

Ok(op, arg, rows, count) ==
    [op |-> op, arg |-> arg, err |-> "none", msg |-> "", rows |-> rows, count |-> count]

Err(op, arg, kind, msg) ==
    [op |-> op, arg |-> arg, err |-> kind, msg |-> msg, rows |-> {}, count |-> 0]

\* a failed statement: `?` turns DbErr into ServiceError::Database
DbFailure(op, arg) == Err(op, arg, "Database", "connection")

(***************************************************************************)
(* Statements on table "sessions"                                          *)
(***************************************************************************)
\* Entity::find().filter(Token.eq(token)).one(): token is a unique column
FindByToken(S, token) == {r \in S : r.token = token}

DeleteByToken_Keep(S, token) == S

\* Entity::delete_many().filter(Token.eq(token))
DeleteByToken(S, token) == {r \in S : r.token # token}

DeleteByUser_All(S, user_id) == {}

\* Entity::delete_many().filter(UserId.eq(user_id))
DeleteByUser(S, user_id) == {r \in S : r.user_id # user_id}

DeleteExpired_AtExpiry(S, now) == {r \in S : ~(r.expires_at <= now)}

\* Entity::delete_many().filter(ExpiresAt.lt(now))
DeleteExpired(S, now) == {r \in S : ~(r.expires_at < now)}

UpdateLastActivity_Sliding(S, id, now) ==
    {IF r.id = id
     THEN [r EXCEPT !.last_activity_at = now,
                    !.expires_at = now + DurationHours(SESSION_HOURS)]
     ELSE r : r \in S}

UpdateLastActivity_AllRows(S, id, now) ==
    {[r EXCEPT !.last_activity_at = now] : r \in S}

\* ActiveModel::update with only last_activity_at Set: UPDATE .. WHERE id = pk
UpdateLastActivity(S, id, now) ==
    {IF r.id = id THEN [r EXCEPT !.last_activity_at = now] ELSE r : r \in S}

(***************************************************************************)
(* create_session                                                          *)
(***************************************************************************)
\* the session::ActiveModel create_session builds; expires_now, activity_now
\* and created_now are its three reads of Utc::now(), in that order
ActiveModel(id, user_id, token, ip_address, user_agent, expires_now, activity_now, created_now) ==
    [id |-> id, user_id |-> user_id, token |-> token,
     ip_address |-> ip_address, user_agent |-> user_agent,
     expires_at |-> expires_now + DurationHours(SESSION_HOURS),
     last_activity_at |-> activity_now,
     created_at |-> created_now]

\* the row of a call during which the clock does not advance
NewSession(id, user_id, token, ip_address, user_agent, now) ==
    ActiveModel(id, user_id, token, ip_address, user_agent, now, now, now)

\* the insert fails on a storage error and on a duplicate of the unique token
CreateSession(user_id, ip_address, user_agent, token, dbOk) ==
    /\ nextId <= MaxCreated
    /\ LET row == NewSession(nextId, user_id, token, ip_address, user_agent, clock)
       IN  IF dbOk /\ FindByToken(sessions, token) = {}
           THEN /\ sessions' = sessions \cup {row}
                /\ result' = Ok("create_session", token, {SessionResponse(row)}, 0)
           ELSE /\ sessions' = sessions
                /\ result' = DbFailure("create_session", token)
    /\ nextId' = nextId + 1
    /\ UNCHANGED <<clock, ticks, calls, drawn, jwtVars, cryptoVars, vaultVars>>

\* b"ABC..XYZabc..xyz0123456789"
CHARSET ==
    [i \in 1..62 |-> IF i <= 26 THEN 64 + i ELSE IF i <= 52 THEN 70 + i ELSE i - 5]
TOKEN_LEN == 64

\* the values rng.random_range(0..CHARSET.len()) may yield at the 64
\* positions: two runs that each go over the whole range 0..61
RngDraws ==
    {[i \in 1..TOKEN_LEN |-> (7 * i) % Len(CHARSET)],
     [i \in 1..TOKEN_LEN |-> (Len(CHARSET) - 1) - ((7 * i) % Len(CHARSET))]}

\* the draws explored with suspended calls
ConcDraws == {[i \in 1..TOKEN_LEN |-> (7 * i) % Len(CHARSET)]}

\* SessionService::generate_token; rng[i]: the i-th value drawn
SessionService_generate_token(rng) ==
    [i \in 1..TOKEN_LEN |-> CHARSET[rng[i] + 1]]

\* the time (minutes) that may pass between two reads of the clock in a call
ReadGaps == {0, 1}

CreateSessionFromRng_NoUniqueKey(user_id, ip_address, user_agent, rng, gap1, gap2, dbOk) ==
    /\ nextId <= MaxCreated
    /\ LET token == SessionService_generate_token(rng)
           row == ActiveModel(nextId, user_id, token, ip_address, user_agent,
                              clock, clock + gap1, clock + gap1 + gap2)
       IN  IF dbOk
           THEN /\ sessions' = sessions \cup {row}
                /\ result' = Ok("create_session", token, {SessionResponse(row)}, 0)
                /\ drawn' = drawn \cup {<<token, user_id>>}
           ELSE /\ sessions' = sessions
                /\ result' = DbFailure("create_session", token)
                /\ drawn' = drawn
    /\ nextId' = nextId + 1
    /\ clock' = clock + gap1 + gap2
    /\ UNCHANGED <<ticks, calls, jwtVars, cryptoVars, vaultVars>>

\* create_session with its token drawn and its clock read as the code does:
\* the clock may advance by gap1 between the read for expires_at and the
\* read for last_activity_at, and by gap2 before the read for created_at;
\* the insert fails on a storage error and on a duplicate of the unique token
CreateSessionFromRng(user_id, ip_address, user_agent, rng, gap1, gap2, dbOk) ==
    /\ nextId <= MaxCreated
    /\ LET token == SessionService_generate_token(rng)
           row == ActiveModel(nextId, user_id, token, ip_address, user_agent,
                              clock, clock + gap1, clock + gap1 + gap2)
       IN  IF dbOk /\ FindByToken(sessions, token) = {}
           THEN /\ sessions' = sessions \cup {row}
                /\ result' = Ok("create_session", token, {SessionResponse(row)}, 0)
                /\ drawn' = drawn \cup {<<token, user_id>>}
           ELSE /\ sessions' = sessions
                /\ result' = DbFailure("create_session", token)
                /\ drawn' = drawn
    /\ nextId' = nextId + 1
    /\ clock' = clock + gap1 + gap2
    /\ UNCHANGED <<ticks, calls, jwtVars, cryptoVars, vaultVars>>

\* a create_session whose generate_token draws a string it has not returned
\* before, in a call during which the clock does not advance
CreateSessionFresh(user_id, ip_address, user_agent, rng, dbOk) ==
    /\ \A issue \in drawn : issue[1] # SessionService_generate_token(rng)
    /\ CreateSessionFromRng(user_id, ip_address, user_agent, rng, 0, 0, dbOk)

(***************************************************************************)
(* validate_session                                                        *)
(***************************************************************************)
CheckSession_NoIdle(session, now) ==
    IF session.expires_at < now THEN "expired" ELSE "active"

\* the expiry and idle checks on the row read
CheckSession(session, now) ==
    IF session.expires_at < now THEN "expired"
    ELSE IF session.last_activity_at + DurationMinutes(IDLE_TIMEOUT_MINUTES) < now THEN "idle"
    ELSE "active"

FinishValidate_Upsert(S, session, now, dbOk) ==
    LET verdict == CheckSession(session, now)
        op == "validate_session"
        written == [session EXCEPT !.last_activity_at = now]
    IN  IF ~dbOk
        THEN [sessions |-> S, result |-> DbFailure(op, session.token)]
        ELSE IF verdict = "expired"
        THEN [sessions |-> DeleteByToken(S, session.token),
              result |-> Err(op, session.token, "Unauthorized", "Session expired")]
        ELSE IF verdict = "idle"
        THEN [sessions |-> DeleteByToken(S, session.token),
              result |-> Err(op, session.token, "Unauthorized",
                             "Session expired due to inactivity")]
        ELSE [sessions |-> {r \in S : r.id # session.id} \cup {written},
              result |-> Ok(op, session.token, {SessionResponse(written)}, 0)]

\* the statement after the checks, run against store S: the delete of an
\* expired or idle session, or the last_activity_at update of an active one
\* (an update that matches no row is DbErr::RecordNotUpdated)
FinishValidate(S, session, now, dbOk) ==
    LET verdict == CheckSession(session, now)
        op == "validate_session"
    IN  IF ~dbOk
        THEN [sessions |-> S, result |-> DbFailure(op, session.token)]
        ELSE IF verdict = "expired"
        THEN [sessions |-> DeleteByToken(S, session.token),
              result |-> Err(op, session.token, "Unauthorized", "Session expired")]
        ELSE IF verdict = "idle"
        THEN [sessions |-> DeleteByToken(S, session.token),
              result |-> Err(op, session.token, "Unauthorized",
                             "Session expired due to inactivity")]
        ELSE IF \E r \in S : r.id = session.id
        THEN LET S2 == UpdateLastActivity(S, session.id, now)
             IN  [sessions |-> S2,
                  result |-> Ok(op, session.token,
                                {SessionResponse(r) : r \in {x \in S2 : x.id = session.id}}, 0)]
        ELSE [sessions |-> S,
              result |-> Err(op, session.token, "Database", "RecordNotUpdated")]

\* a call that runs from its lookup to its return with no other call between
ValidateSession(token, dbOk1, dbOk2) ==
    /\ IF ~dbOk1
       THEN /\ result' = DbFailure("validate_session", token)
            /\ sessions' = sessions
       ELSE IF FindByToken(sessions, token) = {}
       THEN /\ result' = Err("validate_session", token, "Unauthorized", "Invalid session token")
            /\ sessions' = sessions
       ELSE LET session == CHOOSE r \in FindByToken(sessions, token) : TRUE
                out == FinishValidate(sessions, session, clock, dbOk2)
            IN  /\ sessions' = out.sessions
                /\ result' = out.result
    /\ UNCHANGED <<clock, ticks, nextId, calls, drawn, jwtVars, cryptoVars, vaultVars>>

Idle == [pc |-> "idle", session |-> {}, now |-> 0]

\* the lookup and the clock read of a call; the call then waits for its
\* second statement
ValidateBegin(p, token, dbOk1) ==
    /\ calls[p].pc = "idle"
    /\ IF ~dbOk1
       THEN /\ result' = DbFailure("validate_session", token)
            /\ calls' = calls
       ELSE IF FindByToken(sessions, token) = {}
       THEN /\ result' = Err("validate_session", token, "Unauthorized", "Invalid session token")
            /\ calls' = calls
       ELSE /\ calls' = [calls EXCEPT ![p] =
                            [pc |-> "checked", session |-> FindByToken(sessions, token),
                             now |-> clock]]
            /\ result' = NoResult
    /\ UNCHANGED <<clock, ticks, sessions, nextId, drawn, jwtVars, cryptoVars, vaultVars>>

\* the second statement of a suspended call, and its return
ValidateFinish(p, dbOk2) ==
    /\ calls[p].pc = "checked"
    /\ LET session == CHOOSE r \in calls[p].session : TRUE
           out == FinishValidate(sessions, session, calls[p].now, dbOk2)
       IN  /\ sessions' = out.sessions
           /\ result' = out.result
    /\ calls' = [calls EXCEPT ![p] = Idle]
    /\ UNCHANGED <<clock, ticks, nextId, drawn, jwtVars, cryptoVars, vaultVars>>

(***************************************************************************)
(* get_session, delete_session, delete_user_sessions,                      *)
(* cleanup_expired_sessions, get_user_sessions                             *)
(***************************************************************************)
get_session(S, token, dbOk) ==
    IF ~dbOk THEN DbFailure("get_session", token)
    ELSE IF FindByToken(S, token) = {}
    THEN Err("get_session", token, "NotFound", "Session not found")
    ELSE Ok("get_session", token, {SessionResponse(r) : r \in FindByToken(S, token)}, 0)

GetSession(token, dbOk) ==
    /\ result' = get_session(sessions, token, dbOk)
    /\ UNCHANGED <<clock, ticks, sessions, nextId, calls, drawn, jwtVars, cryptoVars, vaultVars>>

DeleteSession(token, dbOk) ==
    /\ IF dbOk
       THEN /\ sessions' = DeleteByToken(sessions, token)
            /\ result' = Ok("delete_session", token, {}, 0)
       ELSE /\ sessions' = sessions
            /\ result' = DbFailure("delete_session", token)
    /\ UNCHANGED <<clock, ticks, nextId, calls, drawn, jwtVars, cryptoVars, vaultVars>>

DeleteUserSessions(user_id, dbOk) ==
    /\ IF dbOk
       THEN /\ sessions' = DeleteByUser(sessions, user_id)
            /\ result' = Ok("delete_user_sessions", user_id, {},
                            Cardinality(sessions \ DeleteByUser(sessions, user_id)))
       ELSE /\ sessions' = sessions
            /\ result' = DbFailure("delete_user_sessions", user_id)
    /\ UNCHANGED <<clock, ticks, nextId, calls, drawn, jwtVars, cryptoVars, vaultVars>>

CleanupExpiredSessions(dbOk) ==
    /\ IF dbOk
       THEN /\ sessions' = DeleteExpired(sessions, clock)
            /\ result' = Ok("cleanup_expired_sessions", "", {},
                            Cardinality(sessions \ DeleteExpired(sessions, clock)))
       ELSE /\ sessions' = sessions
            /\ result' = DbFailure("cleanup_expired_sessions", "")
    /\ UNCHANGED <<clock, ticks, nextId, calls, drawn, jwtVars, cryptoVars, vaultVars>>

\* find().filter(UserId.eq(user_id)).filter(ExpiresAt.gt(now)).all()
get_user_sessions(S, user_id, now, dbOk) ==
    IF ~dbOk THEN DbFailure("get_user_sessions", user_id)
    ELSE Ok("get_user_sessions", user_id,
            {SessionResponse(r) : r \in {x \in S : x.user_id = user_id /\ x.expires_at > now}}, 0)

GetUserSessions(user_id, dbOk) ==
    /\ result' = get_user_sessions(sessions, user_id, clock, dbOk)
    /\ UNCHANGED <<clock, ticks, sessions, nextId, calls, drawn, jwtVars, cryptoVars, vaultVars>>

(***************************************************************************)
(* The wall clock                                                          *)
(***************************************************************************)
Tick(d, max) ==
    /\ ticks < max
    /\ clock' = clock + d
    /\ ticks' = ticks + 1
    /\ result' = NoResult
    /\ UNCHANGED <<sessions, nextId, calls, drawn, jwtVars, cryptoVars, vaultVars>>

(***************************************************************************)
(* Token service: keys                                                     *)
(***************************************************************************)
\* number of advances of the token service's clock explored
MaxJTicks == 2
\* number of generate_token calls explored (each draws a fresh jti)
MaxIssued == 1
\* the most refresh_token calls that succeed after the last generate_token
MaxRefreshed == 1
\* amounts (seconds) by which the token service's clock advances
JSteps == {60, 61, 3600, 86400}
\* the advances explored around refresh_token: past the leeway, past the
\* longest expiration
RefreshSteps == {61, 86400}

\* secrets, as their UTF-8 bytes ("s1", "s2")
SecretA == <<115, 49>>
SecretB == <<115, 50>>

\* the arguments of JwtService::new
Config(secret, issuer, audience, expiration_hours) ==
    [secret |-> secret, issuer |-> issuer, audience |-> audience,
     expiration_hours |-> expiration_hours]

\* the service of the application, the same service restarted with another
\* expiration, and a service built from another secret; tokens of another
\* issuer or audience are the ForgedClaims below
Meditrack == Config(SecretA, "meditrack", "meditrack-app", 24)
Restarted == Config(SecretA, "meditrack", "meditrack-app", 1)
Verifiers == {Meditrack, Restarted}
Configs ==
    {Meditrack,
     Restarted,
     Config(SecretB, "meditrack", "meditrack-app", 24)}

JwtUsers == {"u1", "u2"}
Emails == {"test@example.com"}
Roles == {"staff"}

RECURSIVE BitXor(_, _)
\* a ^ b on bytes
BitXor(a, b) ==
    IF a = 0 THEN b
    ELSE IF b = 0 THEN a
    ELSE (((a % 2) + (b % 2)) % 2) + 2 * BitXor(a \div 2, b \div 2)

RECURSIVE XorInto(_, _, _)
\* for (i, byte) in secret_bytes.iter().enumerate() { salt[i % 16] ^= byte }
XorInto(salt, secret, i) ==
    IF i > Len(secret) THEN salt
    ELSE XorInto([salt EXCEPT ![((i - 1) % 16) + 1] = BitXor(@, secret[i])], secret, i + 1)

\* the 16-byte salt: the secret folded by xor, then item += (i as u8) * 17
derive_salt(secret) ==
    LET folded == XorInto([k \in 1..16 |-> 0], secret, 1)
    IN  [k \in 1..16 |-> (folded[k] + (((k - 1) * 17) % 256)) % 256]

\* Argon2::default().hash_password(secret, salt): the hash is a function of
\* password and salt, and distinct inputs give distinct hashes
derive_key(secret) ==
    [argon2id |-> [password |-> secret, salt |-> derive_salt(secret)]]

(***************************************************************************)
(* Token service: token strings                                            *)
(***************************************************************************)
\* Validation::new(Algorithm::HS256): leeway defaults to 60 seconds
LEEWAY == 60

ClaimFields == {"sub", "email", "role", "iat", "exp", "nbf", "jti", "iss", "aud"}

\* Id::to_string: the hyphenated text of the UUID
IdToString(id) == <<"uuid", id>>

\* a part of a token string: base64url of a JSON document
B64(json) == [enc |-> "base64url", json |-> json]

\* a part that is not base64url of JSON
Garbage == [enc |-> "text", json |-> [text |-> "invalid"]]

\* jsonwebtoken::Algorithm: the values of "alg" a header parses with
Algorithms == {"HS256", "HS384", "HS512", "RS256", "ES256", "PS256", "EdDSA"}

\* Header::default()
HeaderDefault == [alg |-> "HS256", typ |-> "JWT"]

\* HMAC-SHA256 over "header.payload", base64url: a function of key and
\* message, and distinct inputs give distinct signatures
sign(key, message) == B64([hs256 |-> [key |-> key, message |-> message]])

\* jsonwebtoken::encode
encode(header, claims, key) ==
    LET h == B64(header)
        c == B64(claims)
    IN  <<h, c, sign(key, <<h, c>>)>>

\* Validation::new(HS256) with set_issuer, set_audience, validate_exp and
\* validate_nbf as JwtService::new sets them
Validation(issuer, audience) ==
    [algorithms |-> {"HS256"}, leeway |-> LEEWAY,
     validate_signature |-> TRUE, validate_exp |-> TRUE, validate_nbf |-> TRUE,
     validate_aud |-> TRUE, iss |-> {issuer}, aud |-> {audience}]

JwtService_new(cfg) ==
    [encoding_key |-> derive_key(cfg.secret),
     decoding_key |-> derive_key(cfg.secret),
     validation |-> Validation(cfg.issuer, cfg.audience),
     issuer |-> cfg.issuer,
     audience |-> cfg.audience,
     expiration_hours |-> cfg.expiration_hours]

\* the service built from each configuration
Services == [cfg \in Configs |-> JwtService_new(cfg)]

\* the keys of the secrets
Keys == [secret \in {SecretA, SecretB} |-> derive_key(secret)]

Decoded(claims) == [kind |-> "Ok", claims |-> {claims}]
Failed(kind) == [kind |-> kind, claims |-> {}]

validate_NoLeeway(claims, validation, now) ==
    IF validation.validate_exp /\ claims.exp < now
    THEN Failed("ExpiredSignature")
    ELSE IF validation.validate_nbf /\ claims.nbf > now
    THEN Failed("ImmatureSignature")
    ELSE IF validation.iss # {} /\ claims.iss \notin validation.iss
    THEN Failed("InvalidIssuer")
    ELSE IF validation.validate_aud /\ claims.aud \notin validation.aud
    THEN Failed("InvalidAudience")
    ELSE Decoded(claims)

validate_NbfFirst(claims, validation, now) ==
    IF validation.validate_nbf /\ claims.nbf > now + validation.leeway
    THEN Failed("ImmatureSignature")
    ELSE IF validation.validate_exp /\ claims.exp < now - validation.leeway
    THEN Failed("ExpiredSignature")
    ELSE IF validation.iss # {} /\ claims.iss \notin validation.iss
    THEN Failed("InvalidIssuer")
    ELSE IF validation.validate_aud /\ claims.aud \notin validation.aud
    THEN Failed("InvalidAudience")
    ELSE Decoded(claims)

\* jsonwebtoken's validation of the claims: exp, then nbf, then iss, then aud
validate(claims, validation, now) ==
    IF validation.validate_exp /\ claims.exp < now - validation.leeway
    THEN Failed("ExpiredSignature")
    ELSE IF validation.validate_nbf /\ claims.nbf > now + validation.leeway
    THEN Failed("ImmatureSignature")
    ELSE IF validation.iss # {} /\ claims.iss \notin validation.iss
    THEN Failed("InvalidIssuer")
    ELSE IF validation.validate_aud /\ claims.aud \notin validation.aud
    THEN Failed("InvalidAudience")
    ELSE Decoded(claims)

decode_NoSignatureCheck(token, key, validation, now) ==
    IF Len(token) # 3
    THEN Failed("InvalidToken")
    ELSE IF token[1].enc # "base64url" \/ DOMAIN token[1].json # {"alg", "typ"}
    THEN Failed("Base64")
    ELSE IF token[2].enc # "base64url" \/ DOMAIN token[2].json # ClaimFields
    THEN Failed("Json")
    ELSE validate(token[2].json, validation, now)

\* jsonwebtoken::decode::<Claims>: the split in three parts, the header, the
\* signature, the payload as Claims, then the validation of the claims
decode(token, key, validation, now) ==
    IF Len(token) # 3
    THEN Failed("InvalidToken")
    ELSE IF token[1].enc # "base64url" \/ DOMAIN token[1].json # {"alg", "typ"}
    THEN Failed("Base64")
    ELSE IF token[1].json.alg \notin Algorithms
    THEN Failed("Json")
    ELSE IF validation.validate_signature /\ token[1].json.alg \notin validation.algorithms
    THEN Failed("InvalidAlgorithm")
    ELSE IF validation.validate_signature /\ token[3] # sign(key, <<token[1], token[2]>>)
    THEN Failed("InvalidSignature")
    ELSE IF token[2].enc # "base64url" \/ DOMAIN token[2].json # ClaimFields
    THEN Failed("Json")
    ELSE validate(token[2].json, validation, now)

generate_token_ExpMinutes(service, user_id, email, role, now, jti) ==
    encode(HeaderDefault,
           [sub |-> IdToString(user_id), email |-> email, role |-> role,
            iat |-> now, exp |-> now + service.expiration_hours * 60, nbf |-> now,
            jti |-> IdToString(jti), iss |-> service.issuer, aud |-> service.audience],
           service.encoding_key)

\* JwtService::generate_token at time now, with jti the fresh token id
generate_token(service, user_id, email, role, now, jti) ==
    encode(HeaderDefault,
           [sub |-> IdToString(user_id), email |-> email, role |-> role,
            iat |-> now, exp |-> now + service.expiration_hours * 3600, nbf |-> now,
            jti |-> IdToString(jti), iss |-> service.issuer, aud |-> service.audience],
           service.encoding_key)

verify_token_RevokedByRefresh(service, token, now) ==
    LET r == decode(token, service.decoding_key, service.validation, now)
    IN  IF r.kind = "Ok" /\ token = issued.from THEN Failed("Invalid")
        ELSE IF r.kind = "Ok" THEN r
        ELSE IF r.kind = "ExpiredSignature" THEN Failed("Expired")
        ELSE IF r.kind = "ImmatureSignature" THEN Failed("NotYetValid")
        ELSE Failed("Invalid")

\* JwtService::verify_token at time now
verify_token(service, token, now) ==
    LET r == decode(token, service.decoding_key, service.validation, now)
    IN  IF r.kind = "Ok" THEN r
        ELSE IF r.kind = "ExpiredSignature" THEN Failed("Expired")
        ELSE IF r.kind = "ImmatureSignature" THEN Failed("NotYetValid")
        ELSE Failed("Invalid")

\* Uuid::parse_str accepts the hyphenated lower-case text Id::to_string
\* writes and other spellings of the same UUID (upper case, braced, simple)
IsUuid(text) == text[1] \in {"uuid", "UUID"}
IdParse(text) == text[2]

NoToken == <<>>

refresh_token_SkipVerify(service, token, now, jti) ==
    LET r == decode(token, service.decoding_key,
                    [service.validation EXCEPT !.validate_exp = FALSE], now)
    IN  IF r.kind # "Ok"
        THEN [kind |-> "Invalid", token |-> NoToken]
        ELSE LET claims == CHOOSE c \in r.claims : TRUE
             IN  IF ~IsUuid(claims.sub)
                 THEN [kind |-> "Invalid", token |-> NoToken]
                 ELSE [kind |-> "Ok",
                       token |-> generate_token(service, IdParse(claims.sub),
                                                claims.email, claims.role, now, jti)]

refresh_token_KeepJti(service, token, now, jti) ==
    LET v == verify_token(service, token, now)
    IN  IF v.kind # "Ok"
        THEN [kind |-> v.kind, token |-> NoToken]
        ELSE LET claims == CHOOSE c \in v.claims : TRUE
             IN  IF ~IsUuid(claims.sub)
                 THEN [kind |-> "Invalid", token |-> NoToken]
                 ELSE [kind |-> "Ok",
                       token |-> encode(HeaderDefault,
                                        [claims EXCEPT !.iat = now, !.nbf = now,
                                            !.exp = now + service.expiration_hours * 3600],
                                        service.encoding_key)]

\* JwtService::refresh_token at time now, with jti the fresh token id
refresh_token(service, token, now, jti) ==
    LET v == verify_token(service, token, now)
    IN  IF v.kind # "Ok"
        THEN [kind |-> v.kind, token |-> NoToken]
        ELSE LET claims == CHOOSE c \in v.claims : TRUE
             IN  IF ~IsUuid(claims.sub)
                 THEN [kind |-> "Invalid", token |-> NoToken]
                 ELSE [kind |-> "Ok",
                       token |-> generate_token(service, IdParse(claims.sub),
                                                claims.email, claims.role, now, jti)]

\* the Validation decode_without_verification builds
ValidationInsecure ==
    [algorithms |-> {"HS256"}, leeway |-> LEEWAY,
     validate_signature |-> FALSE, validate_exp |-> FALSE, validate_nbf |-> FALSE,
     validate_aud |-> FALSE, iss |-> {}, aud |-> {}]

decode_without_verification_CheckExp(service, token, now) ==
    LET r == decode(token, service.decoding_key,
                    [ValidationInsecure EXCEPT !.validate_exp = TRUE], now)
    IN  IF r.kind = "Ok" THEN r ELSE Failed("EncodingError")

\* JwtService::decode_without_verification
decode_without_verification(service, token, now) ==
    LET r == decode(token, service.decoding_key, ValidationInsecure, now)
    IN  IF r.kind = "Ok" THEN r ELSE Failed("EncodingError")

(***************************************************************************)
(* Token service: calls                                                    *)
(***************************************************************************)
NoJResult == [op |-> "none", cfg |-> Config(<<>>, "", "", 0), kind |-> "none", claims |-> {}]

\* no generate_token call: the caller holds no token a service gave it
\* (from: the token a refresh_token call was given)
NoIssue == [cfg |-> Config(<<>>, "", "", 0), user_id |-> "", email |-> "", role |-> "",
            at |-> 0, token |-> <<>>, from |-> NoToken]

GenerateToken(cfg, user_id, email, role) ==
    /\ nextJti <= MaxIssued
    /\ wire' = generate_token(Services[cfg], user_id, email, role, jclock, nextJti)
    /\ issued' = [cfg |-> cfg, user_id |-> user_id, email |-> email, role |-> role,
                  at |-> jclock, token |-> wire', from |-> NoToken]
    /\ nextJti' = nextJti + 1
    /\ jresult' = [op |-> "generate_token", cfg |-> cfg, kind |-> "Ok", claims |-> {}]
    /\ UNCHANGED <<jclock, jticks, sessionVars, cryptoVars, vaultVars>>

VerifyToken(cfg) ==
    /\ LET r == verify_token(Services[cfg], wire, jclock)
       IN  jresult' = [op |-> "verify_token", cfg |-> cfg, kind |-> r.kind, claims |-> r.claims]
    /\ UNCHANGED <<jclock, jticks, nextJti, wire, issued, sessionVars, cryptoVars, vaultVars>>

\* refresh_token on the token held; the caller then holds the new token
RefreshToken(cfg) ==
    /\ nextJti <= MaxIssued + MaxRefreshed
    /\ LET r == refresh_token(Services[cfg], wire, jclock, nextJti)
       IN  /\ jresult' = [op |-> "refresh_token", cfg |-> cfg, kind |-> r.kind, claims |-> {}]
           /\ IF r.kind = "Ok"
              THEN /\ wire' = r.token
                   /\ nextJti' = nextJti + 1
                   /\ issued' = [cfg |-> cfg,
                                 user_id |-> IdParse(wire[2].json.sub),
                                 email |-> wire[2].json.email,
                                 role |-> wire[2].json.role,
                                 at |-> jclock, token |-> r.token, from |-> wire]
              ELSE UNCHANGED <<wire, nextJti, issued>>
    /\ UNCHANGED <<jclock, jticks, sessionVars, cryptoVars, vaultVars>>

DecodeWithoutVerification(cfg) ==
    /\ LET r == decode_without_verification(Services[cfg], wire, jclock)
       IN  jresult' = [op |-> "decode_without_verification", cfg |-> cfg,
                       kind |-> r.kind, claims |-> r.claims]
    /\ UNCHANGED <<jclock, jticks, nextJti, wire, issued, sessionVars, cryptoVars, vaultVars>>

\* the caller presents again the token it gave to refresh_token
PresentOriginal ==
    /\ issued.from # NoToken
    /\ wire' = issued.from
    /\ wire' # wire
    /\ jresult' = NoJResult
    /\ UNCHANGED <<jclock, jticks, nextJti, issued, sessionVars, cryptoVars, vaultVars>>

\* the caller presents again the token refresh_token returned
PresentRefreshed ==
    /\ issued.from # NoToken
    /\ wire' = issued.token
    /\ wire' # wire
    /\ jresult' = NoJResult
    /\ UNCHANGED <<jclock, jticks, nextJti, issued, sessionVars, cryptoVars, vaultVars>>

JTick(d) ==
    /\ jticks < MaxJTicks
    /\ jclock' = jclock + d
    /\ jticks' = jticks + 1
    /\ jresult' = NoJResult
    /\ UNCHANGED <<nextJti, wire, issued, sessionVars, cryptoVars, vaultVars>>

(***************************************************************************)
(* Token strings a caller may present instead of the one it was issued     *)
(***************************************************************************)
\* exp and nbf of claims signed by a holder of the key with another clock
ForgedExp == {0, 1000000}
ForgedNbf == {0, 500000}

ForgedClaims ==
    {[sub |-> IdToString("u1"), email |-> "test@example.com", role |-> "staff",
      iat |-> 0, exp |-> e, nbf |-> n, jti |-> IdToString(0), iss |-> i, aud |-> a] :
        e \in ForgedExp, n \in ForgedNbf,
        i \in {"meditrack", "other-issuer"}, a \in {"meditrack-app", "other-app"}}

\* subjects of claims signed by a holder of the key that writes the UUID
\* another way, or writes something that is not a UUID
ForeignSubs == {<<"UUID", "u1">>, <<"text", "not-a-uuid">>}

\* the signature of the token is the signature of its header and payload
\* under the key of some secret: nothing of it was replaced
Intact(token) ==
    /\ Len(token) = 3
    /\ \E secret \in DOMAIN Keys :
          token[3] = sign(Keys[secret], <<token[1], token[2]>>)

\* payloads put in place of the payload of a token
AlteredPayloads(token) ==
    {[sub |-> <<"text", "tampered">>]} \cup
    (IF token[2].enc = "base64url" /\ DOMAIN token[2].json = ClaimFields
     THEN {[token[2].json EXCEPT !.role = "admin"],
           [token[2].json EXCEPT !.exp = @ + 86400]}
     ELSE {})

\* a payload of the token is replaced, header and signature kept
AlterPayload ==
    /\ Intact(wire)
    /\ \E json \in AlteredPayloads(wire) : wire' = [wire EXCEPT ![2] = B64(json)]
    /\ jresult' = NoJResult
    /\ UNCHANGED <<jclock, jticks, nextJti, issued, sessionVars, cryptoVars, vaultVars>>

\* the signature is replaced: by text, or by a signature under another key
AlterSignature ==
    /\ Intact(wire)
    /\ \E sig \in {Garbage, sign(Keys[SecretB], <<wire[1], wire[2]>>)} :
          /\ sig # wire[3]
          /\ wire' = [wire EXCEPT ![3] = sig]
    /\ jresult' = NoJResult
    /\ UNCHANGED <<jclock, jticks, nextJti, issued, sessionVars, cryptoVars, vaultVars>>

\* the header is replaced by one that names no algorithm
AlterHeader ==
    /\ Intact(wire)
    /\ wire' = [wire EXCEPT ![1] = B64([alg |-> "none", typ |-> "JWT"])]
    /\ wire' # wire
    /\ jresult' = NoJResult
    /\ UNCHANGED <<jclock, jticks, nextJti, issued, sessionVars, cryptoVars, vaultVars>>

\* strings that are not three well-formed parts
Malformed(token) ==
    {<<Garbage>>, <<Garbage, Garbage, Garbage>>} \cup
    (IF Intact(token)
     THEN {SubSeq(token, 1, 2), Append(token, Garbage), <<Garbage, token[2], token[3]>>}
     ELSE {})

PresentMalformed ==
    /\ \E token \in Malformed(wire) :
          /\ wire' = token
          /\ issued' = IF token \in {<<Garbage>>, <<Garbage, Garbage, Garbage>>}
                        THEN NoIssue ELSE issued
    /\ jresult' = NoJResult
    /\ UNCHANGED <<jclock, jticks, nextJti, sessionVars, cryptoVars, vaultVars>>

\* claims signed with the key of a configuration but not built by generate_token
PresentForged ==
    /\ \E claims \in ForgedClaims \cup {[exp |-> 0]} :
          wire' = encode(HeaderDefault, claims, Keys[SecretA])
    /\ issued' = NoIssue
    /\ jresult' = NoJResult
    /\ UNCHANGED <<jclock, jticks, nextJti, sessionVars, cryptoVars, vaultVars>>

\* a token of the configured issuer and audience, signed with the service's
\* key by another holder of the secret, whose sub that holder wrote
PresentForeignSubject ==
    /\ \E sub \in ForeignSubs :
          wire' = encode(HeaderDefault,
                         [sub |-> sub, email |-> "test@example.com", role |-> "staff",
                          iat |-> 0, exp |-> 1000000, nbf |-> 0, jti |-> IdToString(0),
                          iss |-> "meditrack", aud |-> "meditrack-app"],
                         Keys[SecretA])
    /\ issued' = NoIssue
    /\ jresult' = NoJResult
    /\ UNCHANGED <<jclock, jticks, nextJti, sessionVars, cryptoVars, vaultVars>>

InitJwt ==
    /\ jclock = 0
    /\ jticks = 0
    /\ nextJti = 1
    /\ wire = <<>>
    /\ issued = NoIssue
    /\ jresult = NoJResult

(***************************************************************************)
(* Secure storage: keys, encrypt, decrypt                                  *)
(***************************************************************************)
NONCE_LEN == 12
\* bytes of the authentication tag Aes256Gcm appends to the ciphertext
TAG_LEN == 16

\* hostname and user name of the machines, as bytes ("h1", "h2", "u")
Hostnames == {<<104, 49>>, <<104, 50>>}
Usernames == {<<117>>}

\* SecureStorage::get_machine_id: "hostname:username"
get_machine_id(hostname, username) == hostname \o <<58>> \o username

\* the salt SaltString::from_b64("aGVsbG93b3JsZHNhbHQ") decodes to
FixedSalt == <<104, 101, 108, 108, 111, 119, 111, 114, 108, 100, 115, 97, 108, 116>>

\* SecureStorage::derive_key: Argon2 of the machine id under the fixed salt
SecureStorage_derive_key(machine_id) ==
    [argon2id |-> [password |-> machine_id, salt |-> FixedSalt]]

\* SecureStorage::new on a machine
SecureStorage_new(hostname, username) ==
    [key |-> SecureStorage_derive_key(get_machine_id(hostname, username))]

\* password mode: the key is Argon2 of the password under the salt mixed
\* from the password itself
SecureStorage_with_password(password) ==
    [key |-> [argon2id |-> [password |-> password, salt |-> derive_salt(password)]]]

\* operator passwords, as bytes ("A", "B")
Passwords == {<<65>>, <<66>>}

SecureStorages ==
    {SecureStorage_new(h, u) : h \in Hostnames, u \in Usernames}
        \cup {SecureStorage_with_password(pw) : pw \in Passwords}

\* the values OsRng may fill the 12 nonce bytes with
Nonces == {[i \in 1..NONCE_LEN |-> 0], [i \in 1..NONCE_LEN |-> 7]}

\* a string: standard base64 of nonce bytes followed by ciphertext bytes
\* (enc = "base64"), or a text that is not base64 (enc = "text"), with the
\* document it spells
Base64(nonce, ct) == [enc |-> "base64", nonce |-> nonce, ct |-> ct, doc |-> <<>>]
Text(doc) == [enc |-> "text", nonce |-> <<>>, ct |-> <<>>, doc |-> <<doc>>]
EmptyString == Base64(<<>>, <<>>)

\* Aes256Gcm::encrypt: ciphertext and tag, a function of key, nonce and
\* plaintext that opens under that key and nonce alone
Aes256Gcm_encrypt(key, nonce, plaintext) ==
    <<[key |-> key, nonce |-> nonce, plaintext |-> plaintext, intact |-> TRUE]>>

\* Aes256Gcm::decrypt: the plaintext if the tag matches, else nothing
Aes256Gcm_decrypt(key, nonce, ct) ==
    {c.plaintext : c \in {c \in {ct[i] : i \in 1..Len(ct)} :
                             c.key = key /\ c.nonce = nonce /\ c.intact}}

\* SecureStorage::encrypt with the nonce OsRng returned
encrypt(storage, plaintext, nonce) ==
    Base64(nonce, Aes256Gcm_encrypt(storage.key, nonce, plaintext))

\* data.len() of the decoded string: the nonce bytes present and at least
\* the tag for the ciphertext present
ByteLen(ciphertext) == Len(ciphertext.nonce) + TAG_LEN * Len(ciphertext.ct)

Plain(plaintext) == [err |-> "none", plaintext |-> {plaintext}]
DecryptionError == [err |-> "Decryption", plaintext |-> {}]

decrypt_NoTag(storage, ciphertext) ==
    IF ciphertext.enc # "base64"
    THEN DecryptionError
    ELSE IF ByteLen(ciphertext) < NONCE_LEN
    THEN DecryptionError
    ELSE IF ciphertext.ct = <<>>
    THEN DecryptionError
    ELSE Plain(ciphertext.ct[1].plaintext)

decrypt_ZeroNonce(storage, ciphertext) ==
    IF ciphertext.enc # "base64"
    THEN DecryptionError
    ELSE IF ByteLen(ciphertext) < NONCE_LEN
    THEN DecryptionError
    ELSE LET opened == Aes256Gcm_decrypt(storage.key, [i \in 1..NONCE_LEN |-> 0],
                                         ciphertext.ct)
         IN  IF opened = {}
             THEN DecryptionError
             ELSE Plain(CHOOSE p \in opened : TRUE)

\* SecureStorage::decrypt
decrypt(storage, ciphertext) ==
    IF ciphertext.enc # "base64"
    THEN DecryptionError
    ELSE IF ByteLen(ciphertext) < NONCE_LEN
    THEN DecryptionError
    ELSE LET opened == Aes256Gcm_decrypt(storage.key, ciphertext.nonce, ciphertext.ct)
         IN  IF opened = {}
             THEN DecryptionError
             ELSE Plain(CHOOSE p \in opened : TRUE)

(***************************************************************************)
(* Secure storage: calls, and the strings a caller may present             *)
(***************************************************************************)
\* a UTF-8 string that is not a JSON document
Str(text) == [kind |-> "text", body |-> [text |-> text]]

Utf8Strings == {Str(""), Str("Hello, World!"), Str("{\"jwt\": 1")}

NoDResult == [op |-> "none", storage |-> [key |-> <<>>], err |-> "none", plaintext |-> {}]
NoSeal == [storage |-> [key |-> <<>>], plaintext |-> Str(""), blob |-> EmptyString]

Encrypt(storage, plaintext) ==
    /\ \E nonce \in Nonces : blob' = encrypt(storage, plaintext, nonce)
    /\ sealed' = [storage |-> storage, plaintext |-> plaintext, blob |-> blob']
    /\ dresult' = [op |-> "encrypt", storage |-> storage, err |-> "none", plaintext |-> {}]
    /\ UNCHANGED <<sessionVars, jwtVars, vaultVars>>

Decrypt(storage) ==
    /\ LET r == decrypt(storage, blob)
       IN  dresult' = [op |-> "decrypt", storage |-> storage, err |-> r.err,
                       plaintext |-> r.plaintext]
    /\ UNCHANGED <<blob, sealed, sessionVars, jwtVars, vaultVars>>

\* the strings that differ from a valid blob in one byte: a byte of the
\* nonce, a byte of ciphertext or tag, or a character outside the alphabet
ByteChanged(valid) ==
    {[valid EXCEPT !.nonce[i] = 255 - @] : i \in 1..NONCE_LEN}
        \cup {[valid EXCEPT !.ct[1].intact = FALSE]}
        \cup {Text([kind |-> "text", body |-> [text |-> "base64 with another character"]])}

\* base64 of the first k bytes of a valid blob, k <= 12
Truncated(valid) ==
    {Base64(SubSeq(valid.nonce, 1, k), <<>>) : k \in 0..NONCE_LEN}

ChangeByte ==
    /\ blob = sealed.blob
    /\ sealed # NoSeal
    /\ blob' \in ByteChanged(blob)
    /\ dresult' = NoDResult
    /\ UNCHANGED <<sealed, sessionVars, jwtVars, vaultVars>>

Truncate ==
    /\ blob = sealed.blob
    /\ sealed # NoSeal
    /\ blob' \in Truncated(blob)
    /\ dresult' = NoDResult
    /\ UNCHANGED <<sealed, sessionVars, jwtVars, vaultVars>>

\* storage.decrypt("invalid_base64!")
PresentInvalidBase64 ==
    /\ blob' = Text(Str("invalid_base64!"))
    /\ sealed' = NoSeal
    /\ dresult' = NoDResult
    /\ UNCHANGED <<sessionVars, jwtVars, vaultVars>>

(***************************************************************************)
(* Configuration and its storage                                           *)
(***************************************************************************)
\* DatabaseConfig::default()
DatabaseDefault ==
    [host |-> "localhost", port |-> 5432, database |-> "meditrack",
     username |-> "meditrack", password |-> "meditrack_dev_password",
     max_connections |-> 10, min_connections |-> 2,
     connect_timeout |-> 30, idle_timeout |-> 600]

\* JwtConfig::default()
JwtDefault ==
    [secret |-> "change-this-in-production-meditrack-secret-key",
     issuer |-> "meditrack", audience |-> "meditrack-app", expiration_hours |-> 24]

\* AppConfig::default()
AppConfigDefault ==
    [app_name |-> "meditrack", database |-> DatabaseDefault, jwt |-> JwtDefault]

\* a configuration an operator edited
Production ==
    [AppConfigDefault EXCEPT !.database.host = "db.internal",
                             !.database.password = "pg-secret",
                             !.jwt.secret = "operator-secret",
                             !.jwt.expiration_hours = 1]

AppConfigs == {AppConfigDefault, Production}

\* serde_json::to_string_pretty(&AppConfig): app_name is #[serde(skip)]
to_string_pretty(config) ==
    [kind |-> "json", body |-> [database |-> config.database, jwt |-> config.jwt]]

ConfigOk(config) == [err |-> "none", config |-> {config}]
ConfigErr(kind) == [err |-> kind, config |-> {}]

\* serde_json::from_str::<AppConfig>: database and jwt are #[serde(default)],
\* a member of the wrong shape or a text that is not JSON is an error
from_str(text) ==
    IF text.kind # "json"
    THEN ConfigErr("Serialization")
    ELSE IF ~(DOMAIN text.body \subseteq {"database", "jwt"})
    THEN ConfigErr("Serialization")
    ELSE IF "database" \in DOMAIN text.body
              /\ DOMAIN text.body.database # DOMAIN DatabaseDefault
    THEN ConfigErr("Serialization")
    ELSE IF "jwt" \in DOMAIN text.body /\ DOMAIN text.body.jwt # DOMAIN JwtDefault
    THEN ConfigErr("Serialization")
    ELSE ConfigOk([app_name |-> "",
                   database |-> IF "database" \in DOMAIN text.body
                                THEN text.body.database ELSE DatabaseDefault,
                   jwt |-> IF "jwt" \in DOMAIN text.body
                           THEN text.body.jwt ELSE JwtDefault])

\* the files of the config directory and of the operator
ConfigPath == "config.enc"
PlainPaths == {"export.json"}
Absent == [enc |-> "absent", nonce |-> <<>>, ct |-> <<>>, doc |-> <<>>]

\* the text a file holds, read as a string handed to serde_json
AsText(content) ==
    IF content.enc = "text" THEN content.doc[1] ELSE Str("base64")

\* ConfigStorage::new_with_path and ::new_with_password for app "meditrack"
ConfigStorage(secure_storage) ==
    [app_name |-> "meditrack", secure_storage |-> secure_storage]

MachineStorage == ConfigStorage(SecureStorage_new(<<104, 49>>, <<117>>))
PasswordStorages == {ConfigStorage(SecureStorage_with_password(pw)) : pw \in Passwords}
ConfigStorages == {MachineStorage} \cup PasswordStorages

load_NoAppName(storage, files, ioOk) ==
    IF files[ConfigPath] = Absent
    THEN ConfigErr("NotFound")
    ELSE IF ~ioOk
    THEN ConfigErr("Io")
    ELSE LET d == decrypt(storage.secure_storage, files[ConfigPath])
         IN  IF d.err # "none"
             THEN ConfigErr("Decryption")
             ELSE from_str(CHOOSE text \in d.plaintext : TRUE)

\* ConfigStorage::load; ioOk: fs::read_to_string succeeds
load(storage, files, ioOk) ==
    IF files[ConfigPath] = Absent
    THEN ConfigErr("NotFound")
    ELSE IF ~ioOk
    THEN ConfigErr("Io")
    ELSE LET d == decrypt(storage.secure_storage, files[ConfigPath])
         IN  IF d.err # "none"
             THEN ConfigErr("Decryption")
             ELSE LET parsed == from_str(CHOOSE text \in d.plaintext : TRUE)
                  IN  IF parsed.err # "none"
                      THEN parsed
                      ELSE ConfigOk([(CHOOSE c \in parsed.config : TRUE)
                                        EXCEPT !.app_name = storage.app_name])

\* what fs::write may leave of the string it was writing when it fails after
\* File::create truncated the file: nothing, or the first bytes
PartlyWritten(content) ==
    {EmptyString} \cup
    (IF content.enc = "base64" /\ content.ct # <<>>
     THEN {[content EXCEPT !.ct[1].intact = FALSE]}
     ELSE {})

\* how a call of fs::write ends: done, failed before the file was opened
\* (also create_dir_all failing), failed after it was truncated
WriteOutcomes == {"ok", "open", "write"}

\* fs::write(path, content)
fs_write(files, path, content, io) ==
    IF io = "ok" THEN {[files EXCEPT ![path] = content]}
    ELSE IF io = "open" THEN {files}
    ELSE {[files EXCEPT ![path] = partial] : partial \in PartlyWritten(content)}

save_Plain(storage, config, nonce) ==
    Text(to_string_pretty(config))

\* the string ConfigStorage::save writes: the pretty JSON, encrypted
save(storage, config, nonce) ==
    encrypt(storage.secure_storage, to_string_pretty(config), nonce)

\* logged: what the call reported through tracing only
NoCResult ==
    [op |-> "none", storage |-> ConfigStorage([key |-> <<>>]), path |-> "",
     err |-> "none", config |-> {}, logged |-> {}]
CResult(op, storage, path, r) ==
    [op |-> op, storage |-> storage, path |-> path, err |-> r.err, config |-> r.config,
     logged |-> {}]

NoSave == [storage |-> ConfigStorage([key |-> <<>>]), config |-> {}]
Saved(storage, config) == [storage |-> storage, config |-> {config}]

NotWriting == [pc |-> "idle", storage |-> ConfigStorage([key |-> <<>>]), content |-> Absent]

(***************************************************************************)
(* Configuration storage: calls                                            *)
(***************************************************************************)
Load(storage, ioOk) ==
    /\ cresult' = CResult("load", storage, ConfigPath, load(storage, disk, ioOk))
    /\ UNCHANGED <<disk, writers, saved, sessionVars, jwtVars, cryptoVars>>

\* ConfigStorage::save, the whole call
Save(storage, config, io) ==
    /\ \E nonce \in Nonces :
          disk' \in fs_write(disk, ConfigPath, save(storage, config, nonce), io)
    /\ cresult' = CResult("save", storage, ConfigPath,
                          IF io = "ok" THEN ConfigOk(config) ELSE ConfigErr("Io"))
    /\ saved' = IF io = "ok" THEN Saved(storage, config)
                ELSE IF io = "open" THEN saved ELSE NoSave
    /\ UNCHANGED <<writers, sessionVars, jwtVars, cryptoVars>>

Delete_NoExistsCheck(storage, ioOk) ==
    /\ IF disk[ConfigPath] # Absent /\ ioOk
       THEN /\ disk' = [disk EXCEPT ![ConfigPath] = Absent]
            /\ saved' = NoSave
            /\ cresult' = CResult("delete", storage, ConfigPath, ConfigErr("none"))
       ELSE /\ cresult' = CResult("delete", storage, ConfigPath, ConfigErr("Io"))
            /\ UNCHANGED <<disk, saved>>
    /\ UNCHANGED <<writers, sessionVars, jwtVars, cryptoVars>>

\* ConfigStorage::delete; ioOk: fs::remove_file succeeds
Delete(storage, ioOk) ==
    /\ IF disk[ConfigPath] = Absent
       THEN /\ cresult' = CResult("delete", storage, ConfigPath, ConfigErr("none"))
            /\ UNCHANGED <<disk, saved>>
       ELSE IF ioOk
       THEN /\ disk' = [disk EXCEPT ![ConfigPath] = Absent]
            /\ saved' = NoSave
            /\ cresult' = CResult("delete", storage, ConfigPath, ConfigErr("none"))
       ELSE /\ cresult' = CResult("delete", storage, ConfigPath, ConfigErr("Io"))
            /\ UNCHANGED <<disk, saved>>
    /\ UNCHANGED <<writers, sessionVars, jwtVars, cryptoVars>>

\* ConfigStorage::exists
exists(storage, files) == files[ConfigPath] # Absent

\* ConfigStorage::export_plain(path)
ExportPlain(storage, path, ioOk, io) ==
    /\ LET r == load(storage, disk, ioOk)
       IN  IF r.err # "none"
           THEN /\ cresult' = CResult("export_plain", storage, path, ConfigErr(r.err))
                /\ UNCHANGED disk
           ELSE /\ disk' \in fs_write(disk, path,
                                      Text(to_string_pretty(CHOOSE c \in r.config : TRUE)),
                                      io)
                /\ cresult' = CResult("export_plain", storage, path,
                                      IF io = "ok" THEN ConfigErr("none") ELSE ConfigErr("Io"))
    /\ UNCHANGED <<writers, saved, sessionVars, jwtVars, cryptoVars>>

import_DefaultsOnError(storage, content) ==
    LET parsed == from_str(AsText(content))
    IN  IF parsed.err # "none"
        THEN ConfigOk(AppConfigDefault)
        ELSE ConfigOk([(CHOOSE c \in parsed.config : TRUE)
                          EXCEPT !.app_name = storage.app_name])

\* ConfigStorage::import up to its call of save: the configuration read
import(storage, content) ==
    LET parsed == from_str(AsText(content))
    IN  IF parsed.err # "none"
        THEN parsed
        ELSE ConfigOk([(CHOOSE c \in parsed.config : TRUE)
                          EXCEPT !.app_name = storage.app_name])

\* ConfigStorage::import(path); ioOk: fs::read_to_string succeeds
Import(storage, path, ioOk, io) ==
    /\ IF disk[path] = Absent \/ ~ioOk
       THEN /\ cresult' = CResult("import", storage, path, ConfigErr("Io"))
            /\ UNCHANGED <<disk, saved>>
       ELSE LET r == import(storage, disk[path])
            IN  IF r.err # "none"
                THEN /\ cresult' = CResult("import", storage, path, r)
                     /\ UNCHANGED <<disk, saved>>
                ELSE LET config == CHOOSE c \in r.config : TRUE
                     IN  /\ \E nonce \in Nonces :
                               disk' \in fs_write(disk, ConfigPath,
                                                  save(storage, config, nonce), io)
                         /\ cresult' = CResult("import", storage, path,
                                               IF io = "ok" THEN r ELSE ConfigErr("Io"))
                         /\ saved' = IF io = "ok" THEN Saved(storage, config)
                                     ELSE IF io = "open" THEN saved ELSE NoSave
    /\ UNCHANGED <<writers, sessionVars, jwtVars, cryptoVars>>

\* the plain documents an operator may put at the path given to import
PlainDocuments ==
    {to_string_pretty(Production),
     [kind |-> "json", body |-> [jwt |-> Production.jwt]],
     [kind |-> "json", body |-> [jwt |-> [secret |-> "only-a-secret"]]],
     Str("{\"jwt\": 1")}

WritePlainFile(path) ==
    /\ \E doc \in PlainDocuments : disk' = [disk EXCEPT ![path] = Text(doc)]
    /\ cresult' = NoCResult
    /\ UNCHANGED <<writers, saved, sessionVars, jwtVars, cryptoVars>>

\* what AppConfig::load_or_default returns for the outcome of load, and
\* whether it goes on to save the defaults
load_or_default_SaveOnAnyError(loaded) ==
    IF loaded.err = "none"
    THEN [config |-> CHOOSE c \in loaded.config : TRUE, saves |-> FALSE]
    ELSE [config |-> AppConfigDefault, saves |-> TRUE]

load_or_default(loaded) ==
    IF loaded.err = "none"
    THEN [config |-> CHOOSE c \in loaded.config : TRUE, saves |-> FALSE]
    ELSE IF loaded.err = "NotFound"
    THEN [config |-> AppConfigDefault, saves |-> TRUE]
    ELSE [config |-> AppConfigDefault, saves |-> FALSE]

\* AppConfig::load_or_default(config_dir), the whole call; newOk:
\* ConfigStorage::new_with_path succeeds (the host name can be read)
LoadOrDefault(newOk, ioOk, io) ==
    /\ IF ~newOk
       THEN /\ cresult' = [CResult("load_or_default", MachineStorage, ConfigPath,
                                   ConfigOk(AppConfigDefault))
                              EXCEPT !.logged = {"Encryption"}]
            /\ UNCHANGED <<disk, saved>>
       ELSE LET loaded == load(MachineStorage, disk, ioOk)
                d == load_or_default(loaded)
            IN  /\ cresult' = [CResult("load_or_default", MachineStorage, ConfigPath,
                                       ConfigOk(d.config))
                                  EXCEPT !.logged = (IF loaded.err = "none" THEN {}
                                                     ELSE {loaded.err})
                                                    \cup (IF d.saves /\ io # "ok"
                                                          THEN {"save failed"} ELSE {})]
                /\ IF d.saves
                   THEN /\ \E nonce \in Nonces :
                              disk' \in fs_write(disk, ConfigPath,
                                                 save(MachineStorage, d.config, nonce), io)
                        /\ saved' = IF io = "ok" THEN Saved(MachineStorage, d.config)
                                    ELSE IF io = "open" THEN saved ELSE NoSave
                   ELSE UNCHANGED <<disk, saved>>
    /\ UNCHANGED <<writers, sessionVars, jwtVars, cryptoVars>>

(***************************************************************************)
(* Configuration storage: save as the steps of fs::write                   *)
(***************************************************************************)
\* File::create inside fs::write: the file exists and is empty
SaveOpen(p, storage, config, ok) ==
    /\ writers[p].pc = "idle"
    /\ IF ok
       THEN /\ \E nonce \in Nonces :
                  writers' = [writers EXCEPT ![p] =
                                 [pc |-> "writing", storage |-> storage,
                                  content |-> save(storage, config, nonce)]]
            /\ disk' = [disk EXCEPT ![ConfigPath] = EmptyString]
            /\ cresult' = NoCResult
            /\ saved' = NoSave
       ELSE /\ cresult' = CResult("save", storage, ConfigPath, ConfigErr("Io"))
            /\ UNCHANGED <<disk, writers, saved>>
    /\ UNCHANGED <<sessionVars, jwtVars, cryptoVars>>

\* write_all inside fs::write, and the return of save
SaveWrite(p, ok) ==
    /\ writers[p].pc = "writing"
    /\ IF ok
       THEN /\ disk' = [disk EXCEPT ![ConfigPath] = writers[p].content]
            /\ cresult' = CResult("save", writers[p].storage, ConfigPath, ConfigErr("none"))
       ELSE /\ disk' \in {[disk EXCEPT ![ConfigPath] = partial] :
                              partial \in PartlyWritten(writers[p].content)}
            /\ cresult' = CResult("save", writers[p].storage, ConfigPath, ConfigErr("Io"))
    /\ writers' = [writers EXCEPT ![p] = NotWriting]
    /\ saved' = NoSave
    /\ UNCHANGED <<sessionVars, jwtVars, cryptoVars>>

\* a config file of this machine whose document is not an AppConfig (the
\* file of another version of the application)
PutUnreadableFile ==
    /\ \E nonce \in Nonces :
          disk' = [disk EXCEPT ![ConfigPath] =
                      encrypt(MachineStorage.secure_storage, Str("{\"jwt\": 1"), nonce)]
    /\ cresult' = NoCResult
    /\ saved' = NoSave
    /\ UNCHANGED <<writers, sessionVars, jwtVars, cryptoVars>>

InitVault ==
    /\ disk = [path \in {ConfigPath} \cup PlainPaths |-> Absent]
    /\ writers = [p \in Procs |-> NotWriting]
    /\ cresult = NoCResult
    /\ saved = NoSave

InitCrypto ==
    /\ blob = EmptyString
    /\ sealed = NoSeal
    /\ dresult = NoDResult

(***************************************************************************)
(* Specifications                                                          *)
(***************************************************************************)
InitSessions ==
    /\ clock = 0
    /\ ticks = 0
    /\ sessions = {}
    /\ nextId = 1
    /\ calls = [p \in Procs |-> Idle]
    /\ result = NoResult
    /\ drawn = {}

Init == InitSessions /\ InitJwt /\ InitCrypto /\ InitVault

\* calls run one after the other
Next ==
    \/ \E u \in Users, ip \in IpAddresses, ua \in UserAgents, t \in Tokens, ok \in BOOLEAN :
          CreateSession(u, ip, ua, t, ok)
    \/ \E t \in Tokens, ok1 \in BOOLEAN, ok2 \in BOOLEAN : ValidateSession(t, ok1, ok2)
    \/ \E t \in Tokens, ok \in BOOLEAN : GetSession(t, ok)
    \/ \E t \in Tokens, ok \in BOOLEAN : DeleteSession(t, ok)
    \/ \E u \in Users, ok \in BOOLEAN : DeleteUserSessions(u, ok)
    \/ \E ok \in BOOLEAN : CleanupExpiredSessions(ok)
    \/ \E u \in Users, ok \in BOOLEAN : GetUserSessions(u, ok)
    \/ \E d \in CoarseSteps : Tick(d, MaxTicks)

Spec == Init /\ [][Next]_vars

\* one login at time 0, then the session is used as the clock advances
KeepAliveLogin ==
    /\ ticks = 0
    /\ nextId = 1
    /\ \E u \in Users, ip \in IpAddresses, ua \in UserAgents, t \in Tokens :
          CreateSession(u, ip, ua, t, TRUE)

NextKeepAlive ==
    \/ KeepAliveLogin
    \/ \E t \in Tokens, ok1 \in BOOLEAN, ok2 \in BOOLEAN : ValidateSession(t, ok1, ok2)
    \/ \E d \in FineSteps : Tick(d, MaxFineTicks)

SpecKeepAlive == Init /\ [][NextKeepAlive]_vars

\* validate_session calls suspended at their await points, interleaved with
\* the other calls
NextConc ==
    \/ \E u \in Users, ip \in IpAddresses, ua \in UserAgents, t \in ConcTokens, ok \in BOOLEAN :
          CreateSession(u, ip, ua, t, ok)
    \/ \E p \in Procs, t \in ConcTokens, ok \in BOOLEAN : ValidateBegin(p, t, ok)
    \/ \E p \in Procs, ok \in BOOLEAN : ValidateFinish(p, ok)
    \/ \E t \in ConcTokens, ok \in BOOLEAN : DeleteSession(t, ok)
    \/ \E u \in Users, ok \in BOOLEAN : DeleteUserSessions(u, ok)
    \/ \E ok \in BOOLEAN : CleanupExpiredSessions(ok)
    \/ \E d \in ConcSteps : Tick(d, MaxConcTicks)

SpecConc == Init /\ [][NextConc]_vars

\* validate_session calls on one bearer string, suspended at their await
\* points while the clock advances by less than the idle timeout
NextRace ==
    \/ \E u \in Users, ip \in IpAddresses, ua \in UserAgents, t \in ConcTokens, ok \in BOOLEAN :
          CreateSession(u, ip, ua, t, ok)
    \/ \E p \in Procs, t \in ConcTokens, ok \in BOOLEAN : ValidateBegin(p, t, ok)
    \/ \E p \in Procs, ok \in BOOLEAN : ValidateFinish(p, ok)
    \/ \E d \in RaceSteps : Tick(d, MaxConcTicks)

SpecRace == Init /\ [][NextRace]_vars

\* suspended validate_session calls interleaved with every call that
\* removes sessions, where no bearer string is issued twice
NextRevoked ==
    \/ \E u \in Users, ip \in IpAddresses, ua \in UserAgents, rng \in ConcDraws, ok \in BOOLEAN :
          CreateSessionFresh(u, ip, ua, rng, ok)
    \/ \E p \in Procs, rng \in ConcDraws, ok \in BOOLEAN :
          ValidateBegin(p, SessionService_generate_token(rng), ok)
    \/ \E p \in Procs, ok \in BOOLEAN : ValidateFinish(p, ok)
    \/ \E rng \in ConcDraws, ok \in BOOLEAN :
          DeleteSession(SessionService_generate_token(rng), ok)
    \/ \E u \in Users, ok \in BOOLEAN : DeleteUserSessions(u, ok)
    \/ \E ok \in BOOLEAN : CleanupExpiredSessions(ok)
    \/ \E d \in ConcSteps : Tick(d, MaxConcTicks)

SpecRevoked == Init /\ [][NextRevoked]_vars

\* sessions that are created and then left alone: no caller validates or
\* deletes them, clients list them; the cleanup command runs when a client
\* invokes it
NextSweep ==
    \/ \E u \in Users, ip \in IpAddresses, ua \in UserAgents, t \in Tokens, ok \in BOOLEAN :
          CreateSession(u, ip, ua, t, ok)
    \/ \E ok \in BOOLEAN : CleanupExpiredSessions(ok)
    \/ \E u \in Users, ok \in BOOLEAN : GetUserSessions(u, ok)
    \/ \E d \in SweepSteps : Tick(d, MaxSweepTicks)

SpecSweep == Init /\ [][NextSweep]_vars

\* the same, where time passes and the application keeps serving the
\* commands that read sessions. run() starts no timer and no task that
\* calls cleanup_expired_sessions, so no fairness holds of the cleanup
\* command
SpecAbandoned ==
    /\ SpecSweep
    /\ WF_vars(\E d \in SweepSteps : Tick(d, MaxSweepTicks))
    /\ WF_vars(\E u \in Users, ok \in BOOLEAN : GetUserSessions(u, ok))

\* logins whose bearer strings come out of generate_token, during which the
\* clock may advance
NextLogin ==
    \/ \E u \in Users, ip \in IpAddresses, ua \in UserAgents, rng \in RngDraws,
          gap1 \in ReadGaps, gap2 \in ReadGaps, ok \in BOOLEAN :
          CreateSessionFromRng(u, ip, ua, rng, gap1, gap2, ok)
    \/ \E rng \in RngDraws, ok \in BOOLEAN :
          DeleteSession(SessionService_generate_token(rng), ok)
    \/ \E d \in LoginSteps : Tick(d, MaxLoginTicks)

SpecLogin == Init /\ [][NextLogin]_vars

\* logins, and every call that removes sessions
NextBearer ==
    \/ \E u \in Users, ip \in IpAddresses, ua \in UserAgents, rng \in RngDraws,
          ok \in BOOLEAN :
          CreateSessionFromRng(u, ip, ua, rng, 0, 0, ok)
    \/ \E rng \in RngDraws, ok1 \in BOOLEAN, ok2 \in BOOLEAN :
          ValidateSession(SessionService_generate_token(rng), ok1, ok2)
    \/ \E rng \in RngDraws, ok \in BOOLEAN :
          DeleteSession(SessionService_generate_token(rng), ok)
    \/ \E u \in Users, ok \in BOOLEAN : DeleteUserSessions(u, ok)
    \/ \E ok \in BOOLEAN : CleanupExpiredSessions(ok)
    \/ \E d \in LoginSteps : Tick(d, MaxLoginTicks)

SpecBearer == Init /\ [][NextBearer]_vars

\* the token service, with callers that present issued, altered and forged
\* token strings
NextJwt ==
    \/ \E cfg \in Configs, u \in JwtUsers, e \in Emails, r \in Roles : GenerateToken(cfg, u, e, r)
    \/ \E cfg \in Verifiers : VerifyToken(cfg)
    \/ \E d \in JSteps : JTick(d)
    \/ AlterPayload
    \/ AlterSignature
    \/ AlterHeader
    \/ PresentMalformed
    \/ PresentForged

NextRefresh ==
    \/ \E cfg \in Configs, user_id \in JwtUsers, email \in Emails, role \in Roles :
          GenerateToken(cfg, user_id, email, role)
    \/ \E cfg \in Verifiers : VerifyToken(cfg)
    \/ \E cfg \in Verifiers : RefreshToken(cfg)
    \/ \E cfg \in Verifiers : DecodeWithoutVerification(cfg)
    \/ \E d \in RefreshSteps : JTick(d)
    \/ PresentMalformed
    \/ PresentForged
    \/ PresentForeignSubject

SpecRefresh == Init /\ [][NextRefresh]_vars

\* a caller that keeps the token it refreshed and uses both
NextRevoke ==
    \/ \E cfg \in Verifiers, user_id \in JwtUsers, email \in Emails, role \in Roles :
          GenerateToken(cfg, user_id, email, role)
    \/ \E cfg \in Verifiers : VerifyToken(cfg)
    \/ \E cfg \in Verifiers : RefreshToken(cfg)
    \/ \E d \in RefreshSteps \cup {3600} : JTick(d)
    \/ PresentOriginal
    \/ PresentRefreshed
    \/ PresentForged

SpecRevoke == Init /\ [][NextRevoke]_vars

NextCrypto ==
    \/ \E storage \in SecureStorages, plaintext \in Utf8Strings : Encrypt(storage, plaintext)
    \/ \E storage \in SecureStorages : Decrypt(storage)
    \/ ChangeByte
    \/ Truncate
    \/ PresentInvalidBase64

SpecCrypto == Init /\ [][NextCrypto]_vars

NextVault ==
    \/ \E storage \in ConfigStorages, ioOk \in BOOLEAN : Load(storage, ioOk)
    \/ \E storage \in ConfigStorages, config \in AppConfigs, io \in WriteOutcomes :
          Save(storage, config, io)
    \/ \E storage \in ConfigStorages, ioOk \in BOOLEAN : Delete(storage, ioOk)
    \/ \E storage \in ConfigStorages, path \in PlainPaths, ioOk \in BOOLEAN,
           io \in WriteOutcomes : ExportPlain(storage, path, ioOk, io)
    \/ \E storage \in ConfigStorages, path \in PlainPaths, ioOk \in BOOLEAN,
           io \in WriteOutcomes : Import(storage, path, ioOk, io)
    \/ \E path \in PlainPaths : WritePlainFile(path)

SpecVault == Init /\ [][NextVault]_vars

\* the application starting on a machine whose config file the other calls
\* wrote, removed or replaced
NextBootstrap ==
    \/ \E newOk \in BOOLEAN, ioOk \in BOOLEAN, io \in WriteOutcomes :
          LoadOrDefault(newOk, ioOk, io)
    \/ \E storage \in ConfigStorages, ioOk \in BOOLEAN : Load(storage, ioOk)
    \/ \E storage \in ConfigStorages, config \in AppConfigs, io \in WriteOutcomes :
          Save(storage, config, io)
    \/ \E storage \in ConfigStorages, ioOk \in BOOLEAN : Delete(storage, ioOk)
    \/ PutUnreadableFile

SpecBootstrap == Init /\ [][NextBootstrap]_vars

\* one storage whose save calls run as the two steps of fs::write, with
\* load calls in between
NextSave ==
    \/ \E p \in Procs, config \in AppConfigs, ok \in BOOLEAN :
          SaveOpen(p, MachineStorage, config, ok)
    \/ \E p \in Procs, ok \in BOOLEAN : SaveWrite(p, ok)
    \/ \E ioOk \in BOOLEAN : Load(MachineStorage, ioOk)

SpecSave == Init /\ [][NextSave]_vars

SpecJwt == Init /\ [][NextJwt]_vars

(***************************************************************************)
(* Properties of the session registry                                      *)
(***************************************************************************)
SessionLifetime == DurationHours(SESSION_HOURS)
IdleTimeout == DurationMinutes(IDLE_TIMEOUT_MINUTES)

\* the rows holding the bearer string the call of this step was made with
Presented == {r \in sessions : r.token = result'.arg}

\* C1: validate_session returns a session only if a record with the bearer
\* string exists, its expires_at is not earlier than the current time and the
\* current time is at most 30 minutes after its last_activity_at; every other
\* call (absent, hard-expired, idle, storage failure) returns an error and no
\* session.
C1_ValidateReturnsOnlyLiveSessions ==
    [][result'.op = "validate_session" =>
         /\ (result'.rows # {} =>
                \E r \in Presented :
                    /\ ~(r.expires_at < clock)
                    /\ ~(clock - r.last_activity_at > IdleTimeout))
         /\ (result'.err = "none" <=> result'.rows # {})
         /\ (result'.err = "none" =>
                \A s \in result'.rows : s.token = result'.arg)]_vars

\* a session was accepted more than 30 minutes after its creation and before
\* its hard limit
C1_Witness ==
    /\ result.op = "validate_session"
    /\ result.err = "none"
    /\ \E s \in result.rows :
          /\ s.last_activity_at > s.created_at + IdleTimeout
          /\ s.last_activity_at < s.expires_at

C3_RejectedSessionIsRemoved ==
    [][(result'.op = "validate_session" /\ result'.err # "Database") =>
         \A r \in Presented :
            (r.expires_at < clock \/ clock - r.last_activity_at > IdleTimeout) =>
               /\ result'.err = "Unauthorized"
               /\ ~\E s \in sessions' : s.token = r.token
               /\ get_session(sessions', r.token, TRUE).err = "NotFound"]_vars

\* a session left untouched for 31 minutes was rejected and removed
C3_Witness ==
    /\ result.op = "validate_session"
    /\ result.err = "Unauthorized"
    /\ result.msg = "Session expired due to inactivity"
    /\ clock = 31
    /\ ~\E s \in sessions : s.token = result.arg

\* C4: a successful validate_session sets last_activity_at of the validated
\* session to the current time and changes nothing else of any record; no
\* operation changes expires_at of an existing session.
C4_ValidateTouchesOnlyLastActivity ==
    [][/\ (result'.op = "validate_session" /\ result'.err = "none") =>
             \E r \in Presented :
                sessions' = (sessions \ {r}) \cup {[r EXCEPT !.last_activity_at = clock]}
       /\ \A r \in sessions, s \in sessions' :
             r.id = s.id => s.expires_at = r.expires_at]_vars

\* a session was validated after the clock advanced, next to another session
C4_Witness ==
    /\ result.op = "validate_session"
    /\ result.err = "none"
    /\ Cardinality(sessions) = 2
    /\ \E r \in sessions : r.token = result.arg /\ r.last_activity_at > r.created_at

\* C5: a validate_session call whose session passed the expiry and idle
\* checks and was then deleted by a delete_user_sessions on its subject,
\* before the last_activity_at write, reports the session as gone
\* (Unauthorized), not a database error.
C5_RaceReportedAsUnauthorized ==
    [][\A p \in Procs :
         (/\ calls[p].pc = "checked"
          /\ calls'[p].pc = "idle"
          /\ result.op = "delete_user_sessions"
          /\ result.count > 0
          /\ result'.msg # "connection"
          /\ \A s \in calls[p].session :
                /\ s.user_id = result.arg
                /\ ~(s.expires_at < calls[p].now)
                /\ ~(calls[p].now - s.last_activity_at > IdleTimeout)
                /\ ~\E r \in sessions : r.id = s.id)
         => result'.err = "Unauthorized"]_vars

\* C6: after delete_session(token) returns, no record holds that bearer
\* string, and deleting an absent token succeeds; after
\* delete_user_sessions(subject) returns n, no record of that subject is
\* left, n is the number of records removed, and the records of every other
\* subject are unchanged.
C6_RevocationCompleteAndScoped ==
    [][/\ (result'.op = "delete_session" /\ result'.err # "Database") =>
             /\ result'.err = "none"
             /\ sessions' = {r \in sessions : r.token # result'.arg}
       /\ (result'.op = "delete_user_sessions" /\ result'.err # "Database") =>
             /\ result'.err = "none"
             /\ ~\E s \in sessions' : s.user_id = result'.arg
             /\ result'.count = Cardinality({r \in sessions : r.user_id = result'.arg})
             /\ {s \in sessions' : s.user_id # result'.arg}
                   = {r \in sessions : r.user_id # result'.arg}]_vars

\* logout-everywhere removed one session and left another subject's session
C6_Witness ==
    /\ result.op = "delete_user_sessions"
    /\ result.err = "none"
    /\ result.count = 1
    /\ \E s \in sessions : s.user_id # result.arg

(***************************************************************************)
(* Properties of the token service                                         *)
(***************************************************************************)
\* three base64url parts: the default header, a payload with the nine claims
WellFormed(token) ==
    /\ Len(token) = 3
    /\ token[1] = B64(HeaderDefault)
    /\ token[2].enc = "base64url"
    /\ DOMAIN token[2].json = ClaimFields
    /\ token[3].enc = "base64url"

\* the signature part is the HMAC of the first two parts under cfg's key
SignedFor(token, cfg) ==
    /\ Len(token) = 3
    /\ token[3] = sign(Keys[cfg.secret], <<token[1], token[2]>>)

\* the last call verified the token now held, at the current time
Verified == jresult.op = "verify_token"

\* the last call verified, with the service that issued it, the token a
\* generate_token call returned
VerifiedOwn == Verified /\ wire = issued.token /\ jresult.cfg = issued.cfg

IssuedExp == issued.at + issued.cfg.expiration_hours * 3600

\* C7 as claimed: a token issued at t with expiration_hours = h verifies at
\* every time from t to exp = t + h hours and fails with Expired at every
\* time after exp.
C7_ExpiredRightAfterExp ==
    VerifiedOwn =>
        /\ (jclock <= IssuedExp => jresult.kind = "Ok")
        /\ (jclock > IssuedExp => jresult.kind = "Expired")

\* C7: a token issued at t with expiration_hours = h verifies, by the service
\* that issued it, at every time from t to exp + 60 s (exp = t + h hours) and
\* fails with Expired at every time after exp + 60 s; the clock never goes
\* back, so after Expired it never verifies again.
C7_ExpiredAfterLeeway ==
    [][/\ jclock' >= jclock
       /\ VerifiedOwn' =>
             /\ (jclock' <= IssuedExp' + LEEWAY => jresult'.kind = "Ok")
             /\ (jclock' > IssuedExp' + LEEWAY => jresult'.kind = "Expired")]_vars

\* a 24-hour token failed with Expired 25 hours after it was issued
C7_Witness ==
    /\ VerifiedOwn
    /\ issued.cfg.expiration_hours = 24
    /\ jclock = issued.at + 25 * 3600
    /\ jresult.kind = "Expired"

\* the token differs from what cfg's service signs or expects: it is not
\* well-formed, its signature is not cfg's over its header and payload (the
\* payload or signature was replaced, or it was signed under another
\* secret), or its issuer or audience is not cfg's
Foreign(token, cfg) ==
    \/ ~WellFormed(token)
    \/ ~SignedFor(token, cfg)
    \/ token[2].json.iss # cfg.issuer
    \/ token[2].json.aud # cfg.audience

\* C8 as claimed: verify_token returns Invalid, never claims, Expired or
\* NotYetValid, for every altered, malformed or foreign-signed token and for
\* every token whose issuer or audience is not the configured one.
C8_ForeignAlwaysInvalid ==
    (Verified /\ Foreign(wire, jresult.cfg)) =>
        (jresult.kind = "Invalid" /\ jresult.claims = {})

\* C8: verify_token returns Invalid and no claims for every token that is
\* not well-formed or whose signature is not the service's over its header
\* and payload; for a correctly signed token whose issuer or audience is not
\* the configured one it returns no claims, and Invalid unless exp + 60 s is
\* past (Expired) or nbf is more than 60 s ahead (NotYetValid).
C8_ForeignNeverAccepted ==
    (Verified /\ Foreign(wire, jresult.cfg)) =>
        /\ jresult.claims = {}
        /\ jresult.kind \in {"Invalid", "Expired", "NotYetValid"}
        /\ (~WellFormed(wire) \/ ~SignedFor(wire, jresult.cfg)) => jresult.kind = "Invalid"
        /\ (WellFormed(wire) /\ SignedFor(wire, jresult.cfg)) =>
              (jresult.kind = "Invalid" <=>
                 /\ ~(wire[2].json.exp + LEEWAY < jclock)
                 /\ ~(wire[2].json.nbf > jclock + LEEWAY))

\* a token whose role was changed to admin after issuance was refused
C8_Witness ==
    /\ Verified
    /\ jresult.kind = "Invalid"
    /\ WellFormed(wire)
    /\ WellFormed(issued.token)
    /\ wire # issued.token
    /\ wire[2].json = [issued.token[2].json EXCEPT !.role = "admin"]

\* the secret, issuer and audience of two configurations are the same
SameIdentity(a, b) ==
    a.secret = b.secret /\ a.issuer = b.issuer /\ a.audience = b.audience

\* C9: verify_token applied before expiry to the token generate_token
\* returned for (subject, email, role), by any service built from the same
\* secret, issuer and audience, returns claims with that sub, email and
\* role, the configured iss and aud, nbf = iat and
\* exp = iat + 3600 * expiration_hours.
C9_IssueVerifyRoundTrip ==
    (Verified /\ wire = issued.token /\ issued # NoIssue
       /\ SameIdentity(jresult.cfg, issued.cfg) /\ jclock <= IssuedExp) =>
        /\ jresult.kind = "Ok"
        /\ \E c \in jresult.claims :
              /\ jresult.claims = {c}
              /\ c.sub = IdToString(issued.user_id)
              /\ c.email = issued.email
              /\ c.role = issued.role
              /\ c.iss = jresult.cfg.issuer
              /\ c.aud = jresult.cfg.audience
              /\ c.iat = issued.at
              /\ c.nbf = c.iat
              /\ c.exp = c.iat + 3600 * issued.cfg.expiration_hours

\* a service built again from the same secret, with another expiration,
\* accepted a token issued earlier by the first one
C9_Witness ==
    /\ Verified
    /\ wire = issued.token
    /\ issued.cfg = Meditrack
    /\ jresult.cfg = Restarted
    /\ jclock > issued.at
    /\ jresult.kind = "Ok"

\* C10 as claimed: a bad signature yields Invalid whatever exp and nbf are;
\* a correctly signed token with exp < now yields Expired whatever its nbf,
\* issuer and audience are; a correctly signed token with exp >= now and
\* nbf > now yields NotYetValid whatever its issuer and audience are.
C10_CheckOrderNoLeeway ==
    (Verified /\ WellFormed(wire)) =>
        LET c == wire[2].json
        IN  /\ ~SignedFor(wire, jresult.cfg) => jresult.kind = "Invalid"
            /\ (SignedFor(wire, jresult.cfg) /\ c.exp < jclock)
                  => jresult.kind = "Expired"
            /\ (SignedFor(wire, jresult.cfg) /\ ~(c.exp < jclock) /\ c.nbf > jclock)
                  => jresult.kind = "NotYetValid"

\* C10: for a token that carries the nine claims, verify_token reports the
\* first failing check in the order signature, expiry, not-before,
\* issuer/audience, where expired means exp + 60 s < now and not yet valid
\* means nbf > now + 60 s: a bad signature yields Invalid whatever exp and
\* nbf are, an expired token Expired whatever nbf, issuer and audience are,
\* an unexpired token with nbf ahead NotYetValid whatever issuer and
\* audience are, and then a wrong issuer or audience Invalid.
C10_CheckOrder ==
    (Verified /\ WellFormed(wire)) =>
        LET c == wire[2].json
            expired == c.exp + LEEWAY < jclock
            immature == c.nbf > jclock + LEEWAY
            misdirected == c.iss # jresult.cfg.issuer \/ c.aud # jresult.cfg.audience
        IN  IF ~SignedFor(wire, jresult.cfg) THEN jresult.kind = "Invalid"
            ELSE IF expired THEN jresult.kind = "Expired"
            ELSE IF immature THEN jresult.kind = "NotYetValid"
            ELSE IF misdirected THEN jresult.kind = "Invalid"
            ELSE jresult.kind = "Ok"

\* a correctly signed token that is expired, not yet valid and of another
\* issuer was reported Expired
C10_Witness ==
    /\ Verified
    /\ WellFormed(wire)
    /\ SignedFor(wire, jresult.cfg)
    /\ wire[2].json.exp + LEEWAY < jclock
    /\ wire[2].json.nbf > jclock + LEEWAY
    /\ wire[2].json.iss # jresult.cfg.issuer
    /\ jresult.kind = "Expired"

(***************************************************************************)
(* Properties of refresh_token and decode_without_verification             *)
(***************************************************************************)
\* a refresh_token call that directly follows a verify_token call of the
\* same service, on the same token string at the same time
RefreshAfterVerify ==
    /\ jresult.op = "verify_token"
    /\ jresult'.op = "refresh_token"
    /\ jresult'.cfg = jresult.cfg

\* C11 as claimed: refresh_token fails exactly when verify_token on that
\* string fails, with the same error kind, and succeeds whenever
\* verify_token succeeds.
C11_RefreshFailsAsVerify ==
    [][RefreshAfterVerify => jresult'.kind = jresult.kind]_vars

\* C11: refresh_token fails with verify_token's error kind (Expired,
\* NotYetValid, Invalid) whenever verify_token on that string fails; when
\* verify_token succeeds it succeeds if the token's sub is the text of a
\* UUID and fails with Invalid if it is not.
C11_RefreshFailsAsVerifyOrOnSubject ==
    [][RefreshAfterVerify =>
         IF jresult.kind # "Ok"
         THEN jresult'.kind = jresult.kind /\ jresult.kind \in {"Expired", "NotYetValid", "Invalid"}
         ELSE IF IsUuid(wire[2].json.sub)
         THEN jresult'.kind = "Ok"
         ELSE jresult'.kind = "Invalid"]_vars

\* refresh_token failed with Expired on a token this service had issued
C11_Witness ==
    /\ jresult.op = "refresh_token"
    /\ jresult.kind = "Expired"
    /\ wire = issued.token
    /\ jresult.cfg = issued.cfg

\* a successful refresh_token call on a token this service minted
RefreshOfOwn ==
    /\ jresult'.op = "refresh_token"
    /\ jresult'.kind = "Ok"
    /\ wire = issued.token
    /\ SameIdentity(jresult'.cfg, issued.cfg)

C13_DecodeIgnoresSignatureAndTime ==
    [][(jresult'.op = "decode_without_verification" /\ WellFormed(wire')) =>
         /\ jresult'.kind = "Ok"
         /\ jresult'.claims = {wire'[2].json}
         /\ (jresult.op = "verify_token" /\ jresult.kind = "Ok")
               => jresult'.claims = jresult.claims]_vars

\* the claims of a token that is expired and signed under another secret
\* were returned
C13_Witness ==
    /\ jresult.op = "decode_without_verification"
    /\ jresult.kind = "Ok"
    /\ WellFormed(wire)
    /\ ~SignedFor(wire, jresult.cfg)
    /\ wire[2].json.exp + LEEWAY < jclock
    /\ jresult.claims = {wire[2].json}

(***************************************************************************)
(* Properties of the secure storage                                        *)
(***************************************************************************)
\* C14: decrypt with the key that encrypted applied to the blob encrypt
\* returned for a string p returns exactly p, whatever nonce was drawn.
C14_EncryptDecryptRoundTrip ==
    (dresult.op = "decrypt" /\ sealed # NoSeal /\ blob = sealed.blob
       /\ dresult.storage = sealed.storage) =>
        (dresult.err = "none" /\ dresult.plaintext = {sealed.plaintext})

\* the empty string came back from a blob sealed under a non-zero nonce
C14_Witness ==
    /\ dresult.op = "decrypt"
    /\ blob = sealed.blob
    /\ dresult.storage = sealed.storage
    /\ Len(blob.nonce) > 0
    /\ blob.nonce[1] # 0
    /\ sealed.plaintext = Str("")
    /\ dresult.plaintext = {Str("")}

\* the string presented is a valid blob with one byte changed, is not
\* base64, or decodes to fewer than 12 bytes
Damaged ==
    \/ blob.enc # "base64"
    \/ ByteLen(blob) < NONCE_LEN
    \/ sealed # NoSeal /\ blob \in ByteChanged(sealed.blob)

\* C15: decrypt of a blob with a changed byte, of a string that is not
\* base64 and of a string that decodes to fewer than 12 bytes returns a
\* Decryption error and no plaintext, under every key.
C15_DecryptFailsClosed ==
    (dresult.op = "decrypt" /\ Damaged) =>
        (dresult.err = "Decryption" /\ dresult.plaintext = {})

\* decrypt with the right key refused a blob whose last nonce byte changed
C15_Witness ==
    /\ dresult.op = "decrypt"
    /\ dresult.storage = sealed.storage
    /\ blob.enc = "base64"
    /\ blob = [sealed.blob EXCEPT !.nonce[NONCE_LEN] = 255 - @]
    /\ dresult.err = "Decryption"

(***************************************************************************)
(* Properties of the configuration storage                                 *)
(***************************************************************************)
SameKey(a, b) == a.secure_storage.key = b.secure_storage.key

OtherPassword ==
    /\ cresult'.op = "load"
    /\ saved # NoSave
    /\ saved.storage \in PasswordStorages
    /\ cresult'.storage \in PasswordStorages
    /\ cresult'.storage # saved.storage

\* C17: load through a storage opened with a password other than the one
\* the configuration was saved with returns a Decryption error and no
\* configuration, and leaves the file unchanged.
C17_WrongPasswordIsDecryptionError ==
    [][(OtherPassword /\ cresult'.err # "Io") =>
         /\ cresult'.err = "Decryption"
         /\ cresult'.config = {}
         /\ disk' = disk]_vars

\* a configuration saved with one password was refused to the other
C17_Witness ==
    /\ cresult.op = "load"
    /\ cresult.err = "Decryption"
    /\ saved # NoSave
    /\ saved.config = {Production}
    /\ saved.storage \in PasswordStorages
    /\ cresult.storage \in PasswordStorages \ {saved.storage}

\* the string is a whole blob: nonce, ciphertext and tag as encrypt made them
Complete(content) ==
    /\ content.enc = "base64"
    /\ Len(content.nonce) = NONCE_LEN
    /\ content.ct # <<>>
    /\ content.ct[1].intact

\* C18: at every point during and after a save the config file holds a
\* complete blob (or does not exist yet), and a load of the storage that
\* saves never returns a Decryption or Serialization error.
C18_SaveIsAtomic ==
    /\ disk[ConfigPath] = Absent \/ Complete(disk[ConfigPath])
    /\ cresult.op = "load" => cresult.err \notin {"Decryption", "Serialization"}

\* a load_or_default call whose load reported one of the given errors
Fallback(errors) ==
    /\ cresult'.op = "load_or_default"
    /\ cresult'.logged \cap errors # {}

\* the file holds the defaults, readable by the application
HoldsDefaults(files) == load(MachineStorage, files, TRUE) = ConfigOk(AppConfigDefault)

\* C19 as claimed: load_or_default always returns a configuration; when
\* load reports NotFound, Decryption or Serialization it returns the
\* defaults and saves them, and a failure of that save does not change the
\* result.
C19_FallbackAlwaysPersists ==
    [][/\ cresult'.op = "load_or_default"
          => (cresult'.err = "none" /\ cresult'.config # {})
       /\ Fallback({"NotFound", "Decryption", "Serialization"})
          => /\ cresult'.config = {AppConfigDefault}
             /\ "save failed" \notin cresult'.logged => HoldsDefaults(disk')]_vars

\* C19: load_or_default always returns a configuration and never fails:
\* the stored one when load succeeds, the defaults otherwise. When load
\* reports NotFound it saves the defaults, and a failure of that save does
\* not change the result; when load reports Decryption, Serialization or
\* an I/O error, or the storage cannot be set up, it leaves the file as it is.
C19_FallbackPersistsOnNotFound ==
    [][/\ cresult'.op = "load_or_default"
          => (cresult'.err = "none" /\ cresult'.config # {})
       /\ (cresult'.op = "load_or_default" /\ cresult'.logged = {})
          => /\ ConfigOk(CHOOSE c \in cresult'.config : TRUE)
                   = load(MachineStorage, disk, TRUE)
             /\ disk' = disk
       /\ Fallback({"NotFound"})
          => /\ cresult'.config = {AppConfigDefault}
             /\ "save failed" \notin cresult'.logged => HoldsDefaults(disk')
       /\ Fallback({"Decryption", "Serialization", "Io", "Encryption"})
          => /\ cresult'.config = {AppConfigDefault}
             /\ disk' = disk]_vars

\* the defaults came back for a file saved in password mode, which stays
C19_Witness ==
    /\ cresult.op = "load_or_default"
    /\ cresult.logged = {"Decryption"}
    /\ cresult.config = {AppConfigDefault}
    /\ saved # NoSave
    /\ saved.config = {Production}
    /\ Complete(disk[ConfigPath])

\* the import call could not read its file or the file is not a document
\* of an AppConfig
ImportRefused ==
    /\ cresult'.op = "import"
    /\ \/ disk[cresult'.path] = Absent
       \/ cresult'.err = "Serialization"

C22_CleanupDeletesExactlyExpired ==
    [][(result'.op = "cleanup_expired_sessions" /\ result'.err # "Database") =>
         /\ result'.err = "none"
         /\ sessions' = {r \in sessions : r.expires_at >= clock}
         /\ result'.count = Cardinality({r \in sessions : r.expires_at < clock})
         /\ result'.count = Cardinality(sessions) - Cardinality(sessions')]_vars

\* a sweep deleted one record and kept a record that expires at this very
\* minute and has been idle for more than 30 minutes
C22_Witness ==
    /\ result.op = "cleanup_expired_sessions"
    /\ result.err = "none"
    /\ result.count = 1
    /\ \E r \in sessions :
          /\ r.expires_at = clock
          /\ r.last_activity_at + IdleTimeout < clock

\* C23: the sweep of expired sessions runs on a fixed interval, so every
\* session record is eventually removed from the store after its expires_at
\* has passed, even if no caller ever validates or deletes it.
C23_AbandonedSessionsAreSwept ==
    \A id \in 1..MaxCreated :
        (\E r \in sessions : r.id = id /\ r.expires_at < clock)
            ~> (~\E r \in sessions : r.id = id)

\* the bytes of the ASCII letters and digits
Alphanumeric == (65..90) \cup (97..122) \cup (48..57)

\* C24: create_session(subject, ip, user_agent) at time now stores and
\* returns one new session owned by that subject whose bearer string is 64
\* characters, each an ASCII letter or digit, with
\* created_at = last_activity_at = now and expires_at = now + 8 hours; it
\* changes no existing session record.
C24_CreateSessionStoresNewSession ==
    [][\A u \in Users, ip \in IpAddresses, ua \in UserAgents, rng \in RngDraws,
          gap1 \in ReadGaps, gap2 \in ReadGaps :
          (CreateSessionFromRng(u, ip, ua, rng, gap1, gap2, TRUE) /\ result'.err = "none") =>
             \E r \in sessions' \ sessions :
                /\ sessions' = sessions \cup {r}
                /\ result'.rows = {SessionResponse(r)}
                /\ r.user_id = u
                /\ Len(r.token) = 64
                /\ \A i \in 1..Len(r.token) : r.token[i] \in Alphanumeric
                /\ r.created_at = clock
                /\ r.last_activity_at = clock
                /\ r.expires_at = clock + SessionLifetime]_vars

\* C25 as claimed: no two session records ever hold the same bearer string
\* at the same time, and a bearer string that was issued to subject A is
\* never later held by a session of a subject B # A, also after A's session
\* was deleted.
C25_BearerNeverReused ==
    /\ \A r \in sessions, s \in sessions : r.token = s.token => r = s
    /\ \A issue \in drawn, r \in sessions : r.token = issue[1] => r.user_id = issue[2]

\* C25: no two session records ever hold the same bearer string at the same
\* time, and while a record holds a bearer string no operation puts that
\* string into a record of another subject: a create_session that draws a
\* stored string fails with a database error and stores nothing. (Once the
\* record is deleted only the randomness of the draw stands against the
\* string being issued again.)
C25_BearerUniqueWhileStored ==
    [][/\ \A r \in sessions', s \in sessions' : r.token = s.token => r = s
       /\ \A r \in sessions, s \in sessions' :
             r.token = s.token => (s.id = r.id /\ s.user_id = r.user_id)
       /\ (result'.op = "create_session" /\ \E r \in sessions : r.token = result'.arg) =>
             /\ result'.err = "Database"
             /\ sessions' = sessions]_vars

\* a create_session drew the bearer string of the session stored by the
\* create_session before it, and failed
C25_Witness ==
    /\ result.op = "create_session"
    /\ result.err = "Database"
    /\ \E r \in sessions : r.token = result.arg /\ r.id + 2 = nextId
    /\ \E issue \in drawn : issue[1] = result.arg

\* C26: after refresh_token(t) succeeds the original token t is still
\* accepted by verify_token at every time up to t's own exp, and so is the
\* new token up to its exp: the old and the new token are valid at the same
\* time, and no issue, verify or refresh call changes what the service
\* accepts.
C26_RefreshDoesNotRevoke ==
    (/\ jresult.op = "verify_token"
     /\ issued.from # NoToken
     /\ wire \in {issued.from, issued.token}
     /\ jclock <= wire[2].json.exp)
        => /\ jresult.kind = "Ok"
           /\ jresult.claims = {wire[2].json}

\* the original token was accepted after it had been refreshed and time had
\* passed, while the refreshed token was valid too
C26_Witness ==
    /\ jresult.op = "verify_token"
    /\ jresult.kind = "Ok"
    /\ issued.from # NoToken
    /\ wire = issued.from
    /\ jclock > issued.at
    /\ verify_token(Services[jresult.cfg], issued.token, jclock).kind = "Ok"

\* C27: load_or_default never modifies an existing config file: it writes
\* the file only when load reported NotFound; when the file exists but cannot
\* be read, decrypted or deserialized, or when the storage cannot be
\* initialized, it returns the defaults and leaves the file as it is.
C27_LoadOrDefaultKeepsExistingFile ==
    [][cresult'.op = "load_or_default" =>
         /\ exists(MachineStorage, disk) => disk' = disk
         /\ disk' # disk =>
               \A ioOk \in BOOLEAN : load(MachineStorage, disk, ioOk).err = "NotFound"
         /\ (cresult'.logged \cap {"Io", "Decryption", "Serialization", "Encryption"} # {}) =>
               /\ disk' = disk
               /\ cresult'.config = {AppConfigDefault}
               /\ cresult'.err = "none"]_vars

\* load_or_default found a file it could not decrypt, returned the defaults
\* and the file is still there
C27_Witness ==
    /\ cresult.op = "load_or_default"
    /\ "Decryption" \in cresult.logged
    /\ cresult.config = {AppConfigDefault}
    /\ exists(MachineStorage, disk)
    /\ load(MachineStorage, disk, TRUE).err = "Decryption"

\* C28: get_user_sessions(subject) at time now returns only active sessions
\* of that subject: every session it returns would be accepted by
\* validate_session on its bearer string at the same instant, and every
\* session of that subject that validate_session would accept at that
\* instant is returned.
C28_UserSessionsAreTheActiveOnes ==
    [][(result'.op = "get_user_sessions" /\ result'.err = "none") =>
         result'.rows =
            {SessionResponse(r) :
                r \in {x \in sessions :
                          /\ x.user_id = result'.arg
                          /\ FinishValidate(sessions, x, clock, TRUE).result.err = "none"}}]_vars

\* C29: under any interleaving of concurrent validate_session calls on the
\* same bearer string with a non-decreasing clock, the stored
\* last_activity_at of a session never decreases, so that after all calls
\* have completed it is the latest time at which a successful validation
\* read the clock.
C29_LastActivityNeverDecreases ==
    [][/\ clock' >= clock
       /\ \A r \in sessions, s \in sessions' :
             r.id = s.id => s.last_activity_at >= r.last_activity_at]_vars

\* the bearer string was stored by a create_session and no record holds it:
\* a validate_session rejection, delete_session, delete_user_sessions or
\* cleanup_expired_sessions removed its record
Revoked(token) ==
    /\ \E issue \in drawn : issue[1] = token
    /\ FindByToken(sessions, token) = {}

\* C30: a bearer string that validate_session rejects for expiry or
\* inactivity has no record when the call returns; once the record of a
\* bearer string was removed (by such a rejection, delete_session,
\* delete_user_sessions or cleanup_expired_sessions) no record with that
\* string reappears and no validate_session call that returns later succeeds
\* for it, started later or already in flight, provided create_session does
\* not issue the same string again.
C30_RevocationIsPermanent ==
    [][/\ (result'.op = "validate_session" /\ result'.err = "Unauthorized") =>
             FindByToken(sessions', result'.arg) = {}
       /\ \A issue \in drawn :
             Revoked(issue[1]) =>
                /\ FindByToken(sessions', issue[1]) = {}
                /\ (result'.op = "validate_session" /\ result'.arg = issue[1])
                      => result'.err # "none"]_vars

\* the last_activity_at write of a call that was in flight when the session
\* was removed found no record and created none
C30_Witness ==
    /\ result.op = "validate_session"
    /\ result.msg = "RecordNotUpdated"
    /\ Revoked(result.arg)

====
